---- MODULE Spec2Model ----
(***************************************************************************)
(* State-machine model of the INTcoin mining pool: the pool core           *)
(* (src/pool/pool.cpp and its alternative src/pool/mining_pool_server.cpp) *)
(* and the Stratum front end (src/pool/stratum_server.cpp).                *)
(*                                                                         *)
(* Time is counted in whole seconds.  Difficulties are uint64_t in the     *)
(* code; every difficulty the model produces stays far below 2^31, except  *)
(* the saturation value UINT64_MAX, for which a stand-in is used.          *)
(***************************************************************************)
EXTENDS Integers, Sequences, FiniteSets, TLC

VARIABLES
    build,                  \* which translation unit provides MiningPoolServer
    relock,                 \* what locking a std::mutex twice from one thread does in this build
    config_,                \* Impl::config_ (PoolConfig) plus the configured VarDiff maximum
    now,                    \* std::chrono::system_clock::now(), in seconds
    miners_,                \* Impl::miners_ : miner id -> Miner
    username_to_miner_id_,  \* Impl::username_to_miner_id_
    workers_,               \* Impl::workers_ : worker id -> Worker
    worker_to_miner_,       \* Impl::worker_to_miner_
    miner_workers_,         \* Impl::miner_workers_ of mining_pool_server.cpp
    next_miner_id_,
    next_worker_id_,
    next_share_id_,
    next_round_id_,
    recent_shares_,         \* Impl::recent_shares_ : the recorded shares
    current_round_,         \* Impl::current_round_
    round_history_,         \* Impl::round_history_
    current_work_,          \* Impl::current_work_ : << >> or <<work>>
    next_job_,              \* the next value GenerateJobID() draws
    stuck,                  \* mutexes owned by a thread that will never release them
    result,                 \* Result<> of the last call of the pool API, << >> before
    connections_,           \* StratumServer::connections_ : conn id -> Connection
    next_conn_id_,
    outbox,                 \* conn id -> the lines written to its socket, in order
    inbox,                  \* conn id -> the lines the client wrote that are not yet read
    pc,                     \* conn id -> where the connection's HandleClient thread stands
    handling,               \* conn id -> the locals of the handler that thread is in
    calculated,             \* value returned by the last CalculateWorkerDifficulty, << >> before
    payment_history_,       \* Impl::payment_history_
    next_payment_id_,
    total_paid_,            \* Impl::total_paid_ of mining_pool_server.cpp
    pool_revenue_,          \* Impl::pool_revenue_ of mining_pool_server.cpp
    payouts,                \* map returned by the last Calculate...Payouts, << >> before
    is_running_,            \* StratumServer::is_running_
    server_socket_,         \* the listening socket: "listening" or "closed"
    accept_thread_,         \* where AcceptLoop stands, and the connection it sets up
    timeout_thread_,        \* where TimeoutMonitorLoop stands, and its timeout_connections
    stop_call,              \* where the thread that called StratumServer::Stop stands
    activity,               \* conn id -> last_activity, the time recv last returned
                            \* data (received_at, 0 before the first), what the
                            \* client did last
    banned_ips_,            \* Impl::banned_ips_ of pool.cpp: address -> end of the block
    measured,               \* the hash of the last CalculateShareDifficulty and the
                            \* value returned, << >> before
    holds,                  \* thread -> the mutexes it owns and will release
    at,                     \* thread -> the call it is in, and where in it
    reader                  \* the bytes a client wrote, those recv has not returned yet,
                            \* message_buffer of HandleClient and the lines it dispatched

poolVars == <<miners_, username_to_miner_id_, workers_, worker_to_miner_, miner_workers_,
              next_miner_id_, next_worker_id_, next_share_id_, next_round_id_,
              recent_shares_, current_round_, round_history_, current_work_,
              next_job_, stuck, result>>

stratumVars == <<connections_, next_conn_id_, outbox, inbox, pc, handling>>

payVars == <<payment_history_, next_payment_id_, total_paid_, pool_revenue_, payouts>>

sessionVars == <<is_running_, server_socket_, accept_thread_, timeout_thread_,
                 stop_call, activity>>

securityVars == <<banned_ips_>>

measureVars == <<measured>>

lockVars == <<holds, at>>

readerVars == <<reader>>

vars == <<build, relock, config_, now, poolVars, stratumVars, calculated, payVars,
          sessionVars, securityVars, measureVars, lockVars, readerVars>>

Max(a, b) == IF a >= b THEN a ELSE b

Last(s) == s[Len(s)]

----------------------------------------------------------------------------
(* Configuration *)

\* A PoolConfig (include/intcoin/pool.h).  min_difficulty, max_difficulty
\* and target_share_time carry the defaults of the command line front end;
\* the variance is given in percent so that the double comparisons of the
\* code can be done in integers.
DefaultConfig ==
    [ min_difficulty         |-> 1000,
      max_difficulty         |-> 100000,
      initial_difficulty     |-> 65536,
      target_share_time      |-> 15,
      vardiff_retarget_time  |-> 60,
      vardiff_variance_pct   |-> 30,
      max_miners             |-> 2,
      max_workers_per_miner  |-> 2,
      ban_on_invalid_share   |-> TRUE,
      max_invalid_shares     |-> 2,
      ban_duration           |-> 600,
      payout_method          |-> "PPLNS",
      pplns_window           |-> 1000,
      pool_fee_percent       |-> 1,
      min_payout             |-> 50,
      payout_interval        |-> 300 ]

\* The two translation units that define MiningPoolServer.
Builds == {"pool.cpp", "mining_pool_server.cpp"}

\* Locking a std::mutex the calling thread already owns is undefined: the
\* thread blocks for ever on itself, or the lock behaves as a recursive one.
RelockOutcomes == {"deadlock", "reentrant"}

----------------------------------------------------------------------------
(* uint256 hashes and CalculateShareDifficulty *)

RECURSIVE Pow2(_)
Pow2(n) == IF n = 0 THEN 1 ELSE 2 * Pow2(n - 1)

\* Stand-in for 2^64 - 1: the largest integer TLC computes with.
UINT64_MAX == Pow2(30) + (Pow2(30) - 1)

\* A uint256 is its 32 bytes, most significant first: h[i] is data()[32 - i].
ZeroHash == [i \in 1..32 |-> 0]

\* The hash whose only set bit follows n leading zero bits.
HashWithLeadingZeros(n) ==
    [i \in 1..32 |-> IF i = (n \div 8) + 1 THEN Pow2(7 - (n % 8)) ELSE 0]

\* The inner loop of CalculateShareDifficulty: zero bits above the
\* highest set bit of a non-zero byte.
RECURSIVE ByteLeadingZeros(_, _)
ByteLeadingZeros(byte, bit) ==
    IF bit < 0 \/ (byte \div Pow2(bit)) % 2 = 1
    THEN 0
    ELSE 1 + ByteLeadingZeros(byte, bit - 1)

\* The outer loop, from byte index i on.
RECURSIVE LeadingZerosFrom(_, _)
LeadingZerosFrom(hash, i) ==
    IF i > 32 THEN 0
    ELSE IF hash[i] = 0 THEN 8 + LeadingZerosFrom(hash, i + 1)
    ELSE ByteLeadingZeros(hash[i], 7)

CalculateShareDifficulty(hash) ==
    LET leading_zeros == LeadingZerosFrom(hash, 1)
        extra_zeros   == leading_zeros - 32
    IN  IF leading_zeros < 32 THEN 1
        ELSE IF extra_zeros > 0
             THEN IF extra_zeros >= 48 THEN UINT64_MAX
                  ELSE Max(65536 * Pow2(extra_zeros), 1)
             ELSE Max(65536, 1)

----------------------------------------------------------------------------
(* ShareValidator *)

ValidateDifficulty(hash, difficulty) ==
    CalculateShareDifficulty(hash) >= difficulty

ValidateWork(share, work) == share.job_id = work.job_id

IsValidBlock(hash, network_difficulty) ==
    CalculateShareDifficulty(hash) >= network_difficulty

ValidateTimestamp(share, work) ==
    /\ share.timestamp - work.created_at >= 0
    /\ share.timestamp - work.created_at < 300

IsDuplicateShare(share, recent_shares) ==
    \E i \in 1..Len(recent_shares) :
        /\ recent_shares[i].nonce = share.nonce
        /\ recent_shares[i].job_id = share.job_id

----------------------------------------------------------------------------
(* VarDiffManager *)

\* static_cast<uint64_t>(d * 1.5) and static_cast<uint64_t>(d * 0.75):
\* the conversion truncates toward zero.
TimesOneAndHalf(d) == (d * 3) \div 2
TimesThreeQuarters(d) == (d * 3) \div 4

\* The hard-coded lower limit of CalculateDifficulty.
VarDiffFloor == 1000

\* ratio = (total_duration / (n-1)) / target_share_time compared with
\* 1 - variance and 1 + variance, cross-multiplied.
RatioBelow(worker, cfg) ==
    (Last(worker.recent_shares) - Head(worker.recent_shares)) * 100
        < (100 - cfg.vardiff_variance_pct) * cfg.target_share_time
              * (Len(worker.recent_shares) - 1)

RatioAbove(worker, cfg) ==
    (Last(worker.recent_shares) - Head(worker.recent_shares)) * 100
        > (100 + cfg.vardiff_variance_pct) * cfg.target_share_time
              * (Len(worker.recent_shares) - 1)

CalculateDifficulty(worker, cfg) ==
    IF Len(worker.recent_shares) < 3
    THEN worker.current_difficulty
    ELSE LET new_diff ==
                 IF RatioBelow(worker, cfg)
                 THEN TimesOneAndHalf(worker.current_difficulty)
                 ELSE IF RatioAbove(worker, cfg)
                      THEN TimesThreeQuarters(worker.current_difficulty)
                      ELSE worker.current_difficulty
         IN  Max(VarDiffFloor, new_diff)

ShouldAdjust(worker, cfg, t) ==
    /\ t - worker.last_share_time >= cfg.vardiff_retarget_time
    /\ Len(worker.recent_shares) >= 3

----------------------------------------------------------------------------
(* Records of the pool *)

Remove(f, k) == [x \in DOMAIN f \ {k} |-> f[x]]

Put(f, k, v) == [x \in (DOMAIN f) \cup {k} |-> IF x = k THEN v ELSE f[x]]

\* Result<T>: what a call of the pool API hands back.  A call whose thread
\* blocks for ever hands nothing back.
Pending == [status |-> "pending", error |-> << >>]
Ok == [status |-> "ok", error |-> << >>]
Err(e) == [status |-> "error", error |-> e]
Hung == [status |-> "hung", error |-> << >>]

\* The counters RegisterMiner sets.
NewMiner(username) ==
    [ username               |-> username,
      total_shares_submitted |-> 0,
      total_shares_accepted  |-> 0,
      total_shares_rejected  |-> 0,
      total_blocks_found     |-> 0,
      unpaid_balance         |-> 0,
      paid_balance           |-> 0,
      last_payout            |-> 0,
      invalid_share_count    |-> 0,
      is_banned              |-> FALSE,
      ban_expires            |-> 0,
      workers                |-> {} ]

\* The fields AddWorker sets.  pool.cpp leaves last_share_time at the
\* epoch, mining_pool_server.cpp sets it to the time of the call.
NewWorker(miner_id, difficulty, t) ==
    [ miner_id           |-> miner_id,
      shares_submitted   |-> 0,
      shares_accepted    |-> 0,
      shares_rejected    |-> 0,
      blocks_found       |-> 0,
      current_difficulty |-> difficulty,
      recent_shares      |-> << >>,
      last_share_time    |-> t,
      is_active          |-> TRUE ]

NewRound(round_id, t) ==
    [ round_id         |-> round_id,
      started_at       |-> t,
      ended_at         |-> 0,
      shares_submitted |-> 0,
      miner_shares     |-> << >>,
      is_complete      |-> FALSE ]

\* Blockchain::GetDifficulty(): twice the difficulty new workers start at.
ChainDifficulty == 2 * DefaultConfig.initial_difficulty

\* The part of the state a call of the pool works on.
Pool ==
    [ miners_        |-> miners_,
      username_to_miner_id_ |-> username_to_miner_id_,
      workers_       |-> workers_,
      worker_to_miner_ |-> worker_to_miner_,
      miner_workers_ |-> miner_workers_,
      next_miner_id_ |-> next_miner_id_,
      next_worker_id_ |-> next_worker_id_,
      recent_shares_ |-> recent_shares_,
      current_round_ |-> current_round_,
      round_history_ |-> round_history_,
      next_round_id_ |-> next_round_id_,
      next_share_id_ |-> next_share_id_,
      current_work_  |-> current_work_,
      next_job_      |-> next_job_,
      stuck          |-> stuck,
      outbox         |-> outbox,
      result         |-> Pending ]

\* The calling thread blocks for ever, owning the mutexes in locks.
Hang(P, locks) == [P EXCEPT !.stuck = @ \cup locks, !.result = Hung]

IncMinerShares(round, miner_id) ==
    [round EXCEPT
        !.shares_submitted = @ + 1,
        !.miner_shares = Put(@, miner_id,
            IF miner_id \in DOMAIN @ THEN @[miner_id] + 1 ELSE 1)]

PushTimestamp(ring, t) ==
    LET pushed == Append(ring, t)
    IN  IF Len(pushed) > 100 THEN Tail(pushed) ELSE pushed

----------------------------------------------------------------------------
(* Messages the server writes to a socket *)

\* {"id":<id>,"result":true,"error":null}
Response(id) == [type |-> "result", id |-> <<id>>, code |-> 0, value |-> 0]

\* SendError: {"id":null,"result":null,"error":[code,message,null]}
ErrorReply(code) == [type |-> "error", id |-> << >>, code |-> code, value |-> 0]

\* {"id":null,"method":"mining.set_difficulty","params":[difficulty]}
SetDifficulty(difficulty) ==
    [type |-> "mining.set_difficulty", id |-> << >>, code |-> 0, value |-> difficulty]

\* {"id":null,"method":"mining.notify","params":[job_id,...]}
Notify(work) ==
    [type |-> "mining.notify", id |-> << >>, code |-> 0, value |-> work.job_id]

\* StratumServer::BroadcastWork, called by a thread that owns the mutexes
\* in held.  Every SendNotify ends in SendRaw, which locks
\* connections_mutex_ while BroadcastWork still owns it.
StratumBroadcastWork(P, work, held) ==
    LET authorized == {c \in DOMAIN connections_ : connections_[c].authorized}
    IN  IF "connections_mutex_" \in P.stuck THEN Hang(P, held)
        ELSE IF authorized = {} THEN P
        ELSE IF relock = "deadlock"
             THEN Hang(P, held \cup {"connections_mutex_"})
             ELSE [P EXCEPT !.outbox =
                      [c \in DOMAIN @ |->
                          IF c \in authorized THEN Append(@[c], Notify(work))
                          ELSE @[c]]]

----------------------------------------------------------------------------
(* pool.cpp: work *)

NewWork(job_id, t) ==
    [job_id |-> job_id, difficulty |-> ChainDifficulty, created_at |-> t,
     clean_jobs |-> TRUE]

\* MiningPoolServer::UpdateWork of pool.cpp with CreateWork and BroadcastWork,
\* called by a thread that owns the mutexes in held.  template_ok is whether
\* Blockchain::GetBlockTemplate succeeds.
UpdateWorkFrom(P, held, template_ok) ==
    IF "work_mutex_" \in held /\ relock = "deadlock"
    THEN Hang(P, held)
    ELSE IF "work_mutex_" \notin held /\ "work_mutex_" \in P.stuck
    THEN Hang(P, held)
    ELSE IF ~template_ok
    THEN [P EXCEPT !.result = Err(<<"Failed to create new work: ">>)]
    ELSE LET work == NewWork(P.next_job_, now)
             created == [P EXCEPT !.current_work_ = <<work>>,
                                  !.next_job_ = @ + 1]
             sent == StratumBroadcastWork(created, work, held)
         IN  IF sent.result = Hung THEN sent ELSE [sent EXCEPT !.result = Ok]

----------------------------------------------------------------------------
(* pool.cpp: share processing.  Every operator below runs inside
   SubmitShare, whose thread owns mutex_. *)

\* MiningPoolServer::ValidateShare: << >> when the share is valid, else
\* the error.
ValidateShare(share, P) ==
    IF P.current_work_ = << >> THEN <<"No current work available">>
    ELSE LET work == P.current_work_[1]
         IN  IF ~ValidateDifficulty(share.share_hash, share.difficulty)
             THEN <<"Share does not meet difficulty requirement">>
             ELSE IF ~ValidateWork(share, work)
             THEN <<"Share is for stale work">>
             ELSE IF ~ValidateTimestamp(share, work)
             THEN <<"Share timestamp invalid">>
             ELSE IF IsDuplicateShare(share, P.recent_shares_)
             THEN <<"Duplicate share">>
             ELSE << >>

\* MiningPoolServer::BanMiner called from inside SubmitShare: it locks
\* mutex_ again.
BanMinerLocked(P, miner_id) ==
    IF relock = "deadlock" THEN Hang(P, {"mutex_"})
    ELSE IF miner_id \in DOMAIN P.miners_
    THEN [P EXCEPT !.miners_[miner_id].is_banned = TRUE,
                   !.miners_[miner_id].ban_expires = now + config_.ban_duration]
    ELSE P

CheckInvalidShares(P, miner_id) ==
    IF ~config_.ban_on_invalid_share THEN P
    ELSE IF miner_id \notin DOMAIN P.miners_ THEN P
    ELSE IF P.miners_[miner_id].invalid_share_count >= config_.max_invalid_shares
    THEN BanMinerLocked(P, miner_id)
    ELSE P

\* The branch of SubmitShare for a share ValidateShare refuses.
RejectShare(P, share, error) ==
    LET counted == [P EXCEPT
            !.workers_[share.worker_id].shares_rejected = @ + 1,
            !.miners_[share.miner_id].total_shares_rejected = @ + 1,
            !.miners_[share.miner_id].invalid_share_count = @ + 1]
        checked == CheckInvalidShares(counted, share.miner_id)
    IN  IF checked.result = Hung THEN checked
        ELSE [checked EXCEPT !.result = Err(<<"Share rejected: ">> \o error)]

\* MiningPoolServer::SendSetDifficulty of the pool: it builds nothing and
\* sends nothing.
SendSetDifficulty(P, worker_id, difficulty) == P

\* MiningPoolServer::AdjustWorkerDifficulty called from ProcessValidShare:
\* it locks mutex_ again.
AdjustWorkerDifficultyLocked(P, worker_id) ==
    IF relock = "deadlock" THEN Hang(P, {"mutex_"})
    ELSE IF worker_id \notin DOMAIN P.workers_ THEN P
    ELSE LET old_diff == P.workers_[worker_id].current_difficulty
             new_diff == CalculateDifficulty(P.workers_[worker_id], config_)
         IN  IF new_diff # old_diff
             THEN SendSetDifficulty(
                      [P EXCEPT !.workers_[worker_id].current_difficulty = new_diff],
                      worker_id, new_diff)
             ELSE P

\* MiningPoolServer::ProcessValidShare.  CalculateWorkerHashrate calls
\* GetMinerShares, which locks mutex_ again.
ProcessValidShare(P, share) ==
    LET w == share.worker_id
        counted == [P EXCEPT
            !.workers_[w].shares_submitted = @ + 1,
            !.workers_[w].shares_accepted = @ + 1,
            !.workers_[w].recent_shares = PushTimestamp(@, share.timestamp)]
        adjusted ==
            IF relock = "deadlock" THEN Hang(counted, {"mutex_"})
            ELSE IF ShouldAdjust(counted.workers_[w], config_, now)
            THEN AdjustWorkerDifficultyLocked(counted, w)
            ELSE counted
    IN  IF adjusted.result = Hung THEN adjusted
        ELSE [adjusted EXCEPT
            !.miners_[share.miner_id].total_shares_submitted = @ + 1,
            !.miners_[share.miner_id].total_shares_accepted = @ + 1,
            !.miners_[share.miner_id].invalid_share_count = 0,
            !.current_round_ = IncMinerShares(@, share.miner_id)]

\* MiningPoolServer::ProcessBlockFound.  chain_accepts is whether
\* Blockchain::AddBlock takes the block.
ProcessBlockFound(P, share, chain_accepts, template_ok) ==
    IF "work_mutex_" \in P.stuck THEN Hang(P, {"mutex_"})
    ELSE IF P.current_work_ = << >>
    THEN [P EXCEPT !.result = Err(<<"No current work available">>)]
    ELSE IF ~chain_accepts
    THEN [P EXCEPT !.result = Err(<<"Failed to submit block: ">>)]
    ELSE LET closed == [P.current_round_ EXCEPT !.ended_at = now,
                                                 !.is_complete = TRUE]
             opened == [P EXCEPT
                 !.workers_[share.worker_id].blocks_found = @ + 1,
                 !.miners_[share.miner_id].total_blocks_found = @ + 1,
                 !.round_history_ = Append(@, closed),
                 !.current_round_ = NewRound(P.next_round_id_, now),
                 !.next_round_id_ = @ + 1]
             updated == UpdateWorkFrom(opened, {"mutex_", "work_mutex_"}, template_ok)
         IN  IF updated.result = Hung THEN updated
             ELSE [updated EXCEPT !.result = Ok]

\* The tail of SubmitShare: the share is pushed to recent_shares_.
RecordShare(P, share) ==
    LET pushed == Append(P.recent_shares_, share)
    IN  [P EXCEPT
            !.recent_shares_ = IF Len(pushed) > 10000
                               THEN SubSeq(pushed, 1001, Len(pushed))
                               ELSE pushed,
            !.result = Ok]

\* What a call of SubmitShare meets outside the pool: whether the chain
\* takes a block, whether it hands out a block template, and the value
\* found in a bool of the Share that was never written.
Environments ==
    [chain_accepts : BOOLEAN, template_ok : BOOLEAN, indeterminate : BOOLEAN]

\* MiningPoolServer::SubmitShare of pool.cpp.  The Share is declared
\* without an initializer and is_block is assigned only when the hash is a
\* block.
SubmitShare(P, worker_id, job_id, nonce, share_hash, env) ==
    IF worker_id \notin DOMAIN P.workers_
    THEN [P EXCEPT !.result = Err(<<"Worker not found">>)]
    ELSE IF P.worker_to_miner_[worker_id] \notin DOMAIN P.miners_
    THEN [P EXCEPT !.result = Err(<<"Miner not found">>)]
    ELSE
    LET share == [ share_id   |-> P.next_share_id_,
                   miner_id   |-> P.worker_to_miner_[worker_id],
                   worker_id  |-> worker_id,
                   job_id     |-> job_id,
                   nonce      |-> nonce,
                   share_hash |-> share_hash,
                   difficulty |-> P.workers_[worker_id].current_difficulty,
                   timestamp  |-> now,
                   valid      |-> FALSE,
                   is_block   |-> env.indeterminate ]
        taken == [P EXCEPT !.next_share_id_ = @ + 1]
        error == ValidateShare(share, taken)
    IN  IF "work_mutex_" \in P.stuck THEN Hang(taken, {"mutex_"})
        ELSE IF error # << >> THEN RejectShare(taken, share, error)
        ELSE
        LET valid == [share EXCEPT !.valid = TRUE]
            credited == ProcessValidShare(taken, valid)
        IN  IF credited.result = Hung THEN credited
            ELSE IF IsValidBlock(share_hash, ChainDifficulty)
            THEN LET block == [valid EXCEPT !.is_block = TRUE]
                     found == ProcessBlockFound(credited, block,
                                  env.chain_accepts, env.template_ok)
                 IN  IF found.result = Hung THEN found
                     ELSE IF found.result # Ok
                     THEN [found EXCEPT !.result =
                              Err(<<"Share accepted but block processing failed: ">>
                                  \o found.result.error)]
                     ELSE RecordShare(found, block)
            ELSE RecordShare(credited, valid)

----------------------------------------------------------------------------
(* mining_pool_server.cpp: share processing *)

\* MiningPoolServer::ValidateShare of mining_pool_server.cpp: the error, or
\* << >>; the share is marked a block through a const_cast.
AltValidateShare(share) ==
    IF ~ValidateDifficulty(share.share_hash, share.difficulty)
    THEN <<"Share does not meet difficulty requirement">>
    ELSE << >>

AltIsBlock(share, P) ==
    /\ P.current_work_ # << >>
    /\ IsValidBlock(share.share_hash, P.current_work_[1].difficulty)

\* CreateWork followed by BroadcastWork, called from ProcessBlockFound:
\* both lock mutex_, which SubmitShare owns.  The pool's own SendNotify
\* writes nothing.
AltCreateAndBroadcast(P, template_ok) ==
    IF relock = "deadlock" THEN Hang(P, {"mutex_"})
    ELSE IF ~template_ok THEN P
    ELSE [P EXCEPT !.current_work_ = <<NewWork(P.next_job_, now)>>,
                   !.next_job_ = @ + 1]

\* MiningPoolServer::ProcessBlockFound of mining_pool_server.cpp.  The
\* round is marked complete before the block is handed to the chain.
AltProcessBlockFound(P, share, chain_accepts, template_ok) ==
    LET marked == [P EXCEPT
            !.workers_[share.worker_id].blocks_found = @ + 1,
            !.miners_[share.miner_id].total_blocks_found = @ + 1,
            !.current_round_.is_complete = TRUE,
            !.current_round_.ended_at = now]
    IN  IF P.current_work_ # << >> /\ ~chain_accepts
        THEN marked
        ELSE AltCreateAndBroadcast(
                 [marked EXCEPT
                     !.round_history_ = Append(@, marked.current_round_),
                     !.current_round_ = NewRound(P.next_round_id_, now),
                     !.next_round_id_ = @ + 1],
                 template_ok)

\* MiningPoolServer::ProcessValidShare of mining_pool_server.cpp.
AltProcessValidShare(P, share, chain_accepts, template_ok) ==
    LET w == share.worker_id
        counted == [P EXCEPT
            !.workers_[w].shares_accepted = @ + 1,
            !.workers_[w].shares_submitted = @ + 1,
            !.workers_[w].last_share_time = now,
            !.workers_[w].recent_shares = PushTimestamp(@, share.timestamp)]
        adjusted ==
            IF ShouldAdjust(counted.workers_[w], config_, now)
            THEN AdjustWorkerDifficultyLocked(counted, w)
            ELSE counted
    IN  IF adjusted.result = Hung THEN adjusted
        ELSE LET credited == [adjusted EXCEPT
                     !.miners_[share.miner_id].total_shares_accepted = @ + 1,
                     !.miners_[share.miner_id].total_shares_submitted = @ + 1,
                     !.current_round_ = IncMinerShares(@, share.miner_id)]
             IN  IF share.is_block
                 THEN AltProcessBlockFound(credited, share, chain_accepts, template_ok)
                 ELSE credited

\* MiningPoolServer::SubmitShare of mining_pool_server.cpp.
AltSubmitShare(P, worker_id, job_id, nonce, share_hash, env) ==
    IF worker_id \notin DOMAIN P.workers_
    THEN [P EXCEPT !.result = Err(<<"Worker not found">>)]
    ELSE
    LET worker == P.workers_[worker_id]
        share == [ share_id   |-> P.next_share_id_,
                   miner_id   |-> worker.miner_id,
                   worker_id  |-> worker_id,
                   job_id     |-> job_id,
                   nonce      |-> nonce,
                   share_hash |-> share_hash,
                   difficulty |-> worker.current_difficulty,
                   timestamp  |-> now,
                   valid      |-> FALSE,
                   is_block   |-> FALSE ]
        taken == [P EXCEPT !.next_share_id_ = @ + 1]
        error == AltValidateShare(share)
    IN  IF error # << >>
        THEN LET counted == [taken EXCEPT
                     !.workers_[worker_id].shares_rejected = @ + 1,
                     !.miners_[worker.miner_id].invalid_share_count = @ + 1]
                 banned ==
                     IF /\ config_.ban_on_invalid_share
                        /\ counted.miners_[worker.miner_id].invalid_share_count
                               >= config_.max_invalid_shares
                     THEN BanMinerLocked(counted, worker.miner_id)
                     ELSE counted
             IN  IF banned.result = Hung THEN banned
                 ELSE [banned EXCEPT !.result = Err(error)]
        ELSE LET valid == [share EXCEPT !.valid = TRUE,
                                        !.is_block = AltIsBlock(share, taken)]
                 processed == AltProcessValidShare(taken, valid,
                                  env.chain_accepts, env.template_ok)
             IN  IF processed.result = Hung THEN processed
                 ELSE LET pushed == Append(processed.recent_shares_, valid)
                      IN  [processed EXCEPT
                              !.recent_shares_ = IF Len(pushed) > 1000
                                                 THEN Tail(pushed) ELSE pushed,
                              !.result = Ok]

----------------------------------------------------------------------------
(* The pool after construction, and its public operations *)

StartTime == 1000

TickSeconds == 300

MaxTicks == 1

MaxShares == 3

MaxJobs == 2

MaxNonce == 2

MaxWorkers == 1

MaxMiners == 1

Usernames == {"alice", "bob"}

\* Hashes a caller hands to SubmitShare: below difficulty 1, exactly the
\* difficulty new workers start at, and the all-zero hash.
ShareHashes ==
    { HashWithLeadingZeros(31), HashWithLeadingZeros(32), ZeroHash }

ApplyPool(P) ==
    /\ miners_' = P.miners_
    /\ username_to_miner_id_' = P.username_to_miner_id_
    /\ workers_' = P.workers_
    /\ worker_to_miner_' = P.worker_to_miner_
    /\ miner_workers_' = P.miner_workers_
    /\ next_miner_id_' = P.next_miner_id_
    /\ next_worker_id_' = P.next_worker_id_
    /\ recent_shares_' = P.recent_shares_
    /\ current_round_' = P.current_round_
    /\ round_history_' = P.round_history_
    /\ next_round_id_' = P.next_round_id_
    /\ next_share_id_' = P.next_share_id_
    /\ current_work_' = P.current_work_
    /\ next_job_' = P.next_job_
    /\ stuck' = P.stuck
    /\ outbox' = P.outbox
    /\ result' = P.result

\* What no operation of this section and of the Stratum server writes.
fixed == <<build, relock, config_, payVars, sessionVars, securityVars, measureVars,
          lockVars, readerVars>>

\* HandleClient before its client wrote anything.
NoStream == [stream |-> << >>, unread |-> << >>, message_buffer |-> << >>,
             dispatched |-> << >>]

\* The threads whose calls are followed lock by lock.
LockThreads == {"t1", "t2"}

Resting == [pc |-> "idle", args |-> << >>]

InitSecurityState ==
    /\ holds = [t \in LockThreads |-> {}]
    /\ at = [t \in LockThreads |-> Resting]
    /\ reader = NoStream
    /\ banned_ips_ = << >>
    /\ measured = << >>

InitPayState ==
    /\ payment_history_ = << >>
    /\ next_payment_id_ = 1
    /\ total_paid_ = 0
    /\ pool_revenue_ = 0
    /\ payouts = << >>

InitPoolState ==
    /\ config_ = DefaultConfig
    /\ now = StartTime
    /\ miners_ = << >>
    /\ username_to_miner_id_ = << >>
    /\ workers_ = << >>
    /\ worker_to_miner_ = << >>
    /\ miner_workers_ = << >>
    /\ next_miner_id_ = 1
    /\ next_worker_id_ = 1
    /\ next_share_id_ = 1
    /\ next_round_id_ = 2
    /\ recent_shares_ = << >>
    /\ current_round_ = NewRound(1, StartTime)
    /\ round_history_ = << >>
    /\ current_work_ = << >>
    /\ next_job_ = 1
    /\ stuck = {}
    /\ result = Pending
    /\ calculated = << >>

\* The Stratum server after Start(): both threads run.
InitStratumState ==
    /\ connections_ = << >>
    /\ next_conn_id_ = 1
    /\ outbox = << >>
    /\ inbox = << >>
    /\ pc = << >>
    /\ handling = << >>
    /\ is_running_ = TRUE
    /\ server_socket_ = "listening"
    /\ accept_thread_ = [pc |-> "accept", conn_id |-> 0, ip |-> "", last_activity |-> 0]
    /\ timeout_thread_ = [pc |-> "sleep", timeout_connections |-> << >>,
                          found |-> FALSE]
    /\ stop_call = "none"
    /\ activity = << >>

InitPool ==
    /\ build \in Builds
    /\ relock \in RelockOutcomes
    /\ InitPoolState
    /\ InitStratumState
    /\ InitPayState
    /\ InitSecurityState

\* The clock moves on.
Tick ==
    /\ now < StartTime + MaxTicks * TickSeconds
    /\ now' = now + TickSeconds
    /\ UNCHANGED <<fixed, poolVars, stratumVars, calculated>>

\* RegisterMiner without its test for a registered username.
RegisterMinerOverwriting(P, username) ==
    [P EXCEPT
        !.miners_ = Put(@, P.next_miner_id_, NewMiner(username)),
        !.username_to_miner_id_ = Put(@, username, P.next_miner_id_),
        !.next_miner_id_ = @ + 1,
        !.result = Ok]

\* MiningPoolServer::RegisterMiner.  Only pool.cpp checks max_miners.
RegisterMiner(P, username) ==
    IF username \in DOMAIN P.username_to_miner_id_
    THEN [P EXCEPT !.result = Err(<<"Username already registered">>)]
    ELSE IF build = "pool.cpp" /\ Cardinality(DOMAIN P.miners_) >= config_.max_miners
    THEN [P EXCEPT !.result = Err(<<"Maximum miners limit reached">>)]
    ELSE [P EXCEPT
             !.miners_ = Put(@, P.next_miner_id_, NewMiner(username)),
             !.username_to_miner_id_ = Put(@, username, P.next_miner_id_),
             !.next_miner_id_ = @ + 1,
             !.result = Ok]

\* miner_workers_[miner_id] as operator[] reads it: empty for a new key.
WorkersIn(miner_workers, miner_id) ==
    IF miner_id \in DOMAIN miner_workers THEN miner_workers[miner_id] ELSE {}

\* MiningPoolServer::AddWorker.  Only pool.cpp checks max_workers_per_miner
\* and leaves last_share_time at the epoch; mining_pool_server.cpp keeps
\* the miner's workers in miner_workers_.
AddWorker(P, miner_id) ==
    IF miner_id \notin DOMAIN P.miners_
    THEN [P EXCEPT !.result = Err(<<"Miner not found">>)]
    ELSE IF /\ build = "pool.cpp"
            /\ Cardinality(P.miners_[miner_id].workers) >= config_.max_workers_per_miner
    THEN [P EXCEPT !.result = Err(<<"Maximum workers per miner limit reached">>)]
    ELSE [P EXCEPT
             !.workers_ = Put(@, P.next_worker_id_,
                 NewWorker(miner_id, config_.initial_difficulty,
                           IF build = "pool.cpp" THEN 0 ELSE now)),
             !.worker_to_miner_ = Put(@, P.next_worker_id_, miner_id),
             !.miners_[miner_id].workers =
                 IF build = "pool.cpp" THEN @ \cup {P.next_worker_id_} ELSE @,
             !.miner_workers_ =
                 IF build = "pool.cpp" THEN @
                 ELSE Put(@, miner_id, WorkersIn(@, miner_id) \cup {P.next_worker_id_}),
             !.next_worker_id_ = @ + 1,
             !.result = Ok]

\* A call of RegisterMiner while fewer than most miner ids are used.
RegisterMinerUpTo(username, most) ==
    /\ "mutex_" \notin stuck
    /\ next_miner_id_ <= most
    /\ ApplyPool(RegisterMiner(Pool, username))
    /\ UNCHANGED <<fixed, now, connections_, next_conn_id_, inbox, pc, handling,
                   calculated>>

RegisterMinerCall(username) == RegisterMinerUpTo(username, MaxMiners)

\* A call of AddWorker while fewer than most worker ids are used.
AddWorkerUpTo(miner_id, most) ==
    /\ "mutex_" \notin stuck
    /\ next_worker_id_ <= most
    /\ ApplyPool(AddWorker(Pool, miner_id))
    /\ UNCHANGED <<fixed, now, connections_, next_conn_id_, inbox, pc, handling,
                   calculated>>

AddWorkerCall(miner_id) == AddWorkerUpTo(miner_id, MaxWorkers)

\* A call of MiningPoolServer::SubmitShare from outside the Stratum server.
SubmitShareCall(worker_id, job_id, nonce, share_hash, env) ==
    /\ "mutex_" \notin stuck
    /\ next_share_id_ <= MaxShares
    /\ env.template_ok => next_job_ <= MaxJobs
    /\ ApplyPool(IF build = "pool.cpp"
                 THEN SubmitShare(Pool, worker_id, job_id, nonce, share_hash, env)
                 ELSE AltSubmitShare(Pool, worker_id, job_id, nonce, share_hash, env))
    /\ UNCHANGED <<fixed, now, connections_, next_conn_id_, inbox, pc, handling,
                   calculated>>

\* MiningPoolServer::UpdateWork: pool.cpp creates the work under
\* work_mutex_ and broadcasts it; mining_pool_server.cpp creates it under
\* mutex_ and broadcasts nothing.
UpdateWorkCall(template_ok) ==
    /\ template_ok => next_job_ <= MaxJobs
    /\ IF build = "pool.cpp"
       THEN /\ "work_mutex_" \notin stuck
            /\ ApplyPool(UpdateWorkFrom(Pool, {}, template_ok))
       ELSE /\ "mutex_" \notin stuck
            /\ ApplyPool(IF template_ok
                         THEN [Pool EXCEPT
                                  !.current_work_ = <<NewWork(next_job_, now)>>,
                                  !.next_job_ = @ + 1,
                                  !.result = Ok]
                         ELSE [Pool EXCEPT !.result =
                                  Err(<<"Failed to get block template: ">>)])
    /\ UNCHANGED <<fixed, now, connections_, next_conn_id_, inbox, pc, handling,
                   calculated>>

NextPool ==
    \/ Tick
    \/ \E username \in Usernames : RegisterMinerCall(username)
    \/ \E miner_id \in 1..Cardinality(Usernames) : AddWorkerCall(miner_id)
    \/ \E worker_id \in 1..MaxWorkers, job_id \in 1..MaxJobs, nonce \in 1..MaxNonce,
          share_hash \in ShareHashes, env \in Environments :
          SubmitShareCall(worker_id, job_id, nonce, share_hash, env)
    \/ \E template_ok \in BOOLEAN : UpdateWorkCall(template_ok)

SpecPool == InitPool /\ [][NextPool]_vars

----------------------------------------------------------------------------
(* The Stratum server: connections and their HandleClient threads *)

MaxConns == 1

MaxOutbox == 6

\* Workers the Stratum server adds.
MaxAuthorized == 2

\* Connection::worker_id of a connection that has not authorized.
NoWorker == 0

\* StratumServer::max_connections_per_ip_
MaxConnectionsPerIp == 10

ClientIps == {"10.0.0.1"}

\* Request ids clients use.
RequestIds == {7}

\* The count of hex digits of the parameters of a mining.submit that
\* HandleSubmit parses without an error: job_id and nonce as HexToUint256
\* takes them, ntime as HexToUint32 takes it.
ParsedWidths == [job_id |-> 64, extranonce2 |-> 8, ntime |-> 8, nonce |-> 64]

\* HexToUint256, HexToUint32 and HexToBytes return an error for a string of
\* len hex digits.
HexToUint256Fails(len) == len # 64

HexToUint32Fails(len) == len # 8

HexToBytesFails(len) == len % 2 # 0

\* The lines a client sends: a parsed stratum::Message.  nparams is
\* params.size(); user, job_id and nonce are the parameters the handlers read.
\* job_id and nonce travel as 64 hex digits: ToHex writes and HexToUint256
\* reads the 32 bytes in the same order, so a client that echoes the job id
\* of a mining.notify hands back the job_id of that work.  hex holds the
\* count of hex digits of each parameter of a submit.
Messages ==
    [method : {"mining.subscribe", "mining.extranonce.subscribe"},
     id : RequestIds, nparams : {0}, user : {""}, job_id : {0}, nonce : {0}]
    \cup
    [method : {"mining.authorize"},
     id : RequestIds, nparams : {1, 2}, user : {"alice"}, job_id : {0}, nonce : {0}]
    \cup
    [method : {"mining.submit"},
     id : RequestIds, nparams : {4}, user : {""}, job_id : {1}, nonce : {1}]
    \cup
    [method : {"mining.submit"},
     id : RequestIds, nparams : {5}, user : {""},
     job_id : 1..MaxJobs, nonce : 1..MaxNonce, hex : {ParsedWidths}]

\* The locals of a thread that is in no handler.
Idle == [msg |-> << >>, miner_id |-> 0, worker_id |-> 0]

\* SendRaw and SendDifficulty: one line written to the socket of conn_id.
Send(box, conn_id, line) ==
    IF conn_id \in DOMAIN box
    THEN [box EXCEPT ![conn_id] = Append(@, line)]
    ELSE box

CountConnectionsFromIP(conns, ip) ==
    Cardinality({c \in DOMAIN conns : conns[c].ip_address = ip})

\* One round of AcceptLoop: the connection enters the table before the
\* limit per address is checked; over the limit the socket is closed and no
\* thread is started, the entry stays.
AcceptRound(ip, most) ==
    /\ next_conn_id_ <= most
    /\ "connections_mutex_" \notin stuck
    /\ LET conn_id == next_conn_id_
           conn == [ worker_id  |-> NoWorker,
                     ip_address |-> ip,
                     subscribed |-> FALSE,
                     authorized |-> FALSE,
                     open       |-> TRUE ]
           inserted == Put(connections_, conn_id, conn)
           refused == CountConnectionsFromIP(inserted, ip) >= MaxConnectionsPerIp
       IN  /\ connections_' =
                  IF refused THEN Put(connections_, conn_id, [conn EXCEPT !.open = FALSE])
                  ELSE inserted
           /\ pc' = Put(pc, conn_id, IF refused THEN "none" ELSE "recv")
           /\ next_conn_id_' = next_conn_id_ + 1
           /\ outbox' = Put(outbox, conn_id, << >>)
           /\ inbox' = Put(inbox, conn_id, << >>)
           /\ handling' = Put(handling, conn_id, Idle)
    /\ UNCHANGED <<fixed, now, poolVars, calculated>>

Accept(ip) == AcceptRound(ip, MaxConns)

\* The client of a connection writes one line.
ClientSend(conn_id, msg) ==
    /\ conn_id \in DOMAIN connections_
    /\ pc[conn_id] = "recv"
    /\ inbox[conn_id] = << >>
    /\ Len(outbox[conn_id]) < MaxOutbox
    /\ inbox' = [inbox EXCEPT ![conn_id] = <<msg>>]
    /\ UNCHANGED <<fixed, now, poolVars, connections_, next_conn_id_, outbox, pc,
                   handling, calculated>>

\* The thread of conn_id has read a line with this method.
Reads(conn_id, methods) ==
    /\ conn_id \in DOMAIN connections_
    /\ pc[conn_id] = "recv"
    /\ inbox[conn_id] # << >>
    /\ inbox[conn_id][1].method \in methods

\* StratumServer::HandleSubscribe
HandleSubscribe(conn_id) ==
    /\ Reads(conn_id, {"mining.subscribe"})
    /\ "connections_mutex_" \notin stuck
    /\ connections_' = [connections_ EXCEPT ![conn_id].subscribed = TRUE]
    /\ outbox' = Send(outbox, conn_id, Response(inbox[conn_id][1].id))
    /\ inbox' = [inbox EXCEPT ![conn_id] = << >>]
    /\ UNCHANGED <<fixed, now, poolVars, next_conn_id_, pc, handling, calculated>>

\* The last branch of StratumServer::ProcessMessage.
HandleUnknown(conn_id) ==
    /\ Reads(conn_id, {"mining.extranonce.subscribe"})
    /\ "connections_mutex_" \notin stuck
    /\ outbox' = Send(outbox, conn_id, ErrorReply(20))
    /\ inbox' = [inbox EXCEPT ![conn_id] = << >>]
    /\ UNCHANGED <<fixed, now, poolVars, connections_, next_conn_id_, pc, handling,
                   calculated>>

\* pool_.SubmitShare as the linked MiningPoolServer defines it.
PoolSubmitShare(P, worker_id, job_id, nonce, share_hash, env) ==
    IF build = "pool.cpp"
    THEN SubmitShare(P, worker_id, job_id, nonce, share_hash, env)
    ELSE AltSubmitShare(P, worker_id, job_id, nonce, share_hash, env)

\* StratumServer::HandleSubmit.  The hash handed to the pool is the
\* value-initialized uint256; a pool error of any kind is answered with
\* code 23.
HandleSubmit(conn_id, env) ==
    /\ Reads(conn_id, {"mining.submit"})
    /\ "connections_mutex_" \notin stuck
    /\ inbox' = [inbox EXCEPT ![conn_id] = << >>]
    /\ LET msg == inbox[conn_id][1]
           worker_id == connections_[conn_id].worker_id
       IN  IF msg.nparams < 5
           THEN /\ outbox' = Send(outbox, conn_id, ErrorReply(20))
                /\ UNCHANGED <<poolVars, pc>>
           ELSE IF worker_id = NoWorker
           THEN /\ outbox' = Send(outbox, conn_id, ErrorReply(25))
                /\ UNCHANGED <<poolVars, pc>>
           ELSE IF \/ HexToUint256Fails(msg.hex.job_id)
                   \/ HexToUint256Fails(msg.hex.nonce)
                   \/ HexToUint32Fails(msg.hex.ntime)
                   \/ HexToBytesFails(msg.hex.extranonce2)
           THEN /\ outbox' = Send(outbox, conn_id, ErrorReply(20))
                /\ UNCHANGED <<poolVars, pc>>
           ELSE /\ "mutex_" \notin stuck
                /\ next_share_id_ <= MaxShares
                /\ env.template_ok => next_job_ <= MaxJobs
                /\ LET P == PoolSubmitShare(Pool, worker_id, msg.job_id, msg.nonce,
                                            ZeroHash, env)
                   IN  IF P.result = Hung
                       THEN /\ ApplyPool(P)
                            /\ pc' = [pc EXCEPT ![conn_id] = "hung"]
                       ELSE /\ ApplyPool([P EXCEPT !.outbox =
                                   Send(@, conn_id,
                                        IF P.result = Ok THEN Response(msg.id)
                                        ELSE ErrorReply(23))])
                            /\ UNCHANGED pc
    /\ UNCHANGED <<fixed, now, connections_, next_conn_id_, handling, calculated>>

\* StratumServer::HandleAuthorize, first part: the parameter check and
\* pool_.GetMinerByUsername, which locks mutex_ and, for a known username,
\* calls GetMiner, which locks it again.
AuthorizeLookup(conn_id) ==
    /\ Reads(conn_id, {"mining.authorize"})
    /\ inbox' = [inbox EXCEPT ![conn_id] = << >>]
    /\ LET msg == inbox[conn_id][1]
       IN  IF msg.nparams < 2
           THEN /\ "connections_mutex_" \notin stuck
                /\ outbox' = Send(outbox, conn_id, ErrorReply(20))
                /\ UNCHANGED <<stuck, pc, handling>>
           ELSE /\ "mutex_" \notin stuck
                /\ next_worker_id_ <= MaxAuthorized
                /\ UNCHANGED outbox
                /\ IF msg.user \notin DOMAIN username_to_miner_id_
                   THEN /\ pc' = [pc EXCEPT ![conn_id] = "auth_register"]
                        /\ handling' = [handling EXCEPT ![conn_id].msg = <<msg>>]
                        /\ UNCHANGED stuck
                   ELSE IF relock = "deadlock"
                   THEN /\ pc' = [pc EXCEPT ![conn_id] = "hung"]
                        /\ stuck' = stuck \cup {"mutex_"}
                        /\ UNCHANGED handling
                   ELSE /\ pc' = [pc EXCEPT ![conn_id] = "auth_add"]
                        /\ handling' = [handling EXCEPT ![conn_id] =
                               [msg |-> <<msg>>,
                                miner_id |-> username_to_miner_id_[msg.user],
                                worker_id |-> 0]]
                        /\ UNCHANGED stuck
    /\ UNCHANGED <<fixed, now, miners_, username_to_miner_id_, workers_,
                   worker_to_miner_, miner_workers_, next_miner_id_, next_worker_id_, next_share_id_,
                   next_round_id_, recent_shares_, current_round_, round_history_,
                   current_work_, next_job_, result, connections_, next_conn_id_,
                   calculated>>

\* HandleAuthorize: pool_.RegisterMiner for a username that was not found.
AuthorizeRegister(conn_id) ==
    /\ conn_id \in DOMAIN pc
    /\ pc[conn_id] = "auth_register"
    /\ "mutex_" \notin stuck
    /\ "connections_mutex_" \notin stuck
    /\ LET P == RegisterMiner(Pool, handling[conn_id].msg[1].user)
       IN  IF P.result = Ok
           THEN /\ ApplyPool(P)
                /\ pc' = [pc EXCEPT ![conn_id] = "auth_add"]
                /\ handling' = [handling EXCEPT ![conn_id].miner_id = next_miner_id_]
           ELSE /\ ApplyPool([P EXCEPT !.outbox = Send(@, conn_id, ErrorReply(24))])
                /\ pc' = [pc EXCEPT ![conn_id] = "recv"]
                /\ handling' = [handling EXCEPT ![conn_id] = Idle]
    /\ UNCHANGED <<fixed, now, connections_, next_conn_id_, inbox, calculated>>

\* HandleAuthorize: GetIP and pool_.AddWorker.
AuthorizeAddWorker(conn_id) ==
    /\ conn_id \in DOMAIN pc
    /\ pc[conn_id] = "auth_add"
    /\ "mutex_" \notin stuck
    /\ "connections_mutex_" \notin stuck
    /\ LET P == AddWorker(Pool, handling[conn_id].miner_id)
       IN  IF P.result = Ok
           THEN /\ ApplyPool(P)
                /\ pc' = [pc EXCEPT ![conn_id] = "auth_mark"]
                /\ handling' = [handling EXCEPT ![conn_id].worker_id = next_worker_id_]
           ELSE /\ ApplyPool([P EXCEPT !.outbox = Send(@, conn_id, ErrorReply(24))])
                /\ pc' = [pc EXCEPT ![conn_id] = "recv"]
                /\ handling' = [handling EXCEPT ![conn_id] = Idle]
    /\ UNCHANGED <<fixed, now, connections_, next_conn_id_, inbox, calculated>>

\* HandleAuthorize: the connection is marked authorized and gets its worker.
AuthorizeMark(conn_id) ==
    /\ conn_id \in DOMAIN pc
    /\ pc[conn_id] = "auth_mark"
    /\ "connections_mutex_" \notin stuck
    /\ connections_' = [connections_ EXCEPT
           ![conn_id].authorized = TRUE,
           ![conn_id].worker_id = handling[conn_id].worker_id]
    /\ pc' = [pc EXCEPT ![conn_id] = "auth_reply"]
    /\ UNCHANGED <<fixed, now, poolVars, next_conn_id_, outbox, inbox, handling,
                   calculated>>

\* HandleAuthorize: SendRaw(conn_id, response)
AuthorizeReply(conn_id) ==
    /\ conn_id \in DOMAIN pc
    /\ pc[conn_id] = "auth_reply"
    /\ "connections_mutex_" \notin stuck
    /\ outbox' = Send(outbox, conn_id, Response(handling[conn_id].msg[1].id))
    /\ pc' = [pc EXCEPT ![conn_id] = "auth_difficulty"]
    /\ UNCHANGED <<fixed, now, poolVars, connections_, next_conn_id_, inbox, handling,
                   calculated>>

\* HandleAuthorize: pool_.GetWorker and SendDifficulty
AuthorizeDifficulty(conn_id) ==
    /\ conn_id \in DOMAIN pc
    /\ pc[conn_id] = "auth_difficulty"
    /\ "mutex_" \notin stuck
    /\ "connections_mutex_" \notin stuck
    /\ LET worker_id == handling[conn_id].worker_id
       IN  outbox' = IF worker_id \in DOMAIN workers_
                     THEN Send(outbox, conn_id,
                               SetDifficulty(workers_[worker_id].current_difficulty))
                     ELSE outbox
    /\ pc' = [pc EXCEPT ![conn_id] = "auth_notify"]
    /\ UNCHANGED <<fixed, now, poolVars, connections_, next_conn_id_, inbox, handling,
                   calculated>>

\* The mutex MiningPoolServer::GetCurrentWork locks.
WorkLock == IF build = "pool.cpp" THEN "work_mutex_" ELSE "mutex_"

\* HandleAuthorize: pool_.GetCurrentWork and SendNotify
AuthorizeNotify(conn_id) ==
    /\ conn_id \in DOMAIN pc
    /\ pc[conn_id] = "auth_notify"
    /\ WorkLock \notin stuck
    /\ "connections_mutex_" \notin stuck
    /\ outbox' = IF current_work_ # << >>
                 THEN Send(outbox, conn_id, Notify(current_work_[1]))
                 ELSE outbox
    /\ pc' = [pc EXCEPT ![conn_id] = "recv"]
    /\ handling' = [handling EXCEPT ![conn_id] = Idle]
    /\ UNCHANGED <<fixed, now, poolVars, connections_, next_conn_id_, inbox,
                   calculated>>

Init == InitPool

\* The runs of the Stratum server are taken at one reading of the clock.
Next ==
    \/ \E ip \in ClientIps : Accept(ip)
    \/ \E conn_id \in 1..MaxConns, msg \in Messages : ClientSend(conn_id, msg)
    \/ \E conn_id \in 1..MaxConns : HandleSubscribe(conn_id)
    \/ \E conn_id \in 1..MaxConns : HandleUnknown(conn_id)
    \/ \E conn_id \in 1..MaxConns, env \in Environments : HandleSubmit(conn_id, env)
    \/ \E conn_id \in 1..MaxConns : AuthorizeLookup(conn_id)
    \/ \E conn_id \in 1..MaxConns : AuthorizeRegister(conn_id)
    \/ \E conn_id \in 1..MaxConns : AuthorizeAddWorker(conn_id)
    \/ \E conn_id \in 1..MaxConns : AuthorizeMark(conn_id)
    \/ \E conn_id \in 1..MaxConns : AuthorizeReply(conn_id)
    \/ \E conn_id \in 1..MaxConns : AuthorizeDifficulty(conn_id)
    \/ \E conn_id \in 1..MaxConns : AuthorizeNotify(conn_id)
    \/ \E template_ok \in BOOLEAN : UpdateWorkCall(template_ok)

Spec == Init /\ [][Next]_vars

----------------------------------------------------------------------------
(* VarDiff in isolation: a worker with an arbitrary share history *)

MaxRing == 10

VarDiffGaps == {0, 4, 10, 15, 20, 30}

VarDiffLengths == {0, 2, 3, MaxRing}

VarDiffDifficulties == {512, 1000, 1001, 1024, 1025, 65536, 100000}

VarDiffConfigs ==
    { [DefaultConfig EXCEPT !.min_difficulty = mn] : mn \in {512, 1000} }

\* n share timestamps, gap seconds apart.
EvenlySpaced(n, gap) == [i \in 1..n |-> (i - 1) * gap]

InitVarDiff ==
    /\ build \in Builds
    /\ relock \in RelockOutcomes
    /\ InitStratumState
    /\ InitPayState
    /\ InitSecurityState
    /\ config_ \in VarDiffConfigs
    /\ now = StartTime
    /\ miners_ = [m \in {1} |-> [NewMiner("alice") EXCEPT
                                     !.workers = IF build = "pool.cpp" THEN {1} ELSE {}]]
    /\ miner_workers_ = IF build = "pool.cpp" THEN << >> ELSE [m \in {1} |-> {1}]
    /\ username_to_miner_id_ = [u \in {"alice"} |-> 1]
    /\ \E d \in VarDiffDifficulties, n \in VarDiffLengths, g \in VarDiffGaps :
          /\ d >= config_.min_difficulty
          /\ d <= config_.max_difficulty
          /\ workers_ = [w \in {1} |->
                 [NewWorker(1, d, 0) EXCEPT !.recent_shares = EvenlySpaced(n, g)]]
    /\ worker_to_miner_ = [w \in {1} |-> 1]
    /\ next_miner_id_ = 2
    /\ next_worker_id_ = 2
    /\ next_share_id_ = 1
    /\ next_round_id_ = 2
    /\ recent_shares_ = << >>
    /\ current_round_ = NewRound(1, StartTime)
    /\ round_history_ = << >>
    /\ current_work_ = << >>
    /\ next_job_ = 1
    /\ stuck = {}
    /\ result = Pending
    /\ calculated = << >>

\* MiningPoolServer::CalculateWorkerDifficulty: the difficulty VarDiff
\* computes for the worker, initial_difficulty for an unknown worker.
CalculateWorkerDifficulty(worker_id) ==
    /\ "mutex_" \notin stuck
    /\ calculated = << >>
    /\ calculated' =
           IF worker_id \in DOMAIN workers_
           THEN <<worker_id, CalculateDifficulty(workers_[worker_id], config_)>>
           ELSE <<worker_id, config_.initial_difficulty>>
    /\ UNCHANGED <<fixed, now, poolVars, stratumVars>>

NextVarDiff ==
    \E worker_id \in 1..(MaxWorkers + 1) : CalculateWorkerDifficulty(worker_id)

SpecVarDiff == InitVarDiff /\ [][NextVarDiff]_vars

----------------------------------------------------------------------------
(* Payouts *)

\* CalculateFee with the quotient rounded up.
CalculateFeeRoundedUp(amount, fee_percent) == (amount * fee_percent + 99) \div 100

\* PayoutCalculator::CalculateFee: static_cast<uint64_t>(amount *
\* fee_percent / 100.0).  The model's fees are whole percents, for which
\* the double product is exact and the cast truncates the quotient.
CalculateFee(amount, fee_percent) == (amount * fee_percent) \div 100

\* (a * b) / c in uint64_t, for operands whose product stays below 2^64:
\* the quotient is taken in two parts so that no intermediate value of the
\* model passes 2^31.
MulDiv(a, b, c) == (a \div c) * b + ((a % c) * b) \div c

\* Indices of the valid shares among the last n_shares entries of shares.
PayoutWindow(shares, n_shares) ==
    LET start == IF Len(shares) > n_shares THEN Len(shares) - n_shares ELSE 0
    IN  {i \in (start + 1)..Len(shares) : shares[i].valid}

\* The miner_shares map built over a set of indices of shares.
MinerShareCount(shares, window, miner_id) ==
    Cardinality({i \in window : shares[i].miner_id = miner_id})

\* PayoutCalculator::CalculatePPLNS.
CalculatePPLNS(shares, n_shares, block_reward, pool_fee) ==
    LET fee == CalculateFee(block_reward, pool_fee)
        reward == block_reward - fee
        window == PayoutWindow(shares, n_shares)
        total == Cardinality(window)
    IN  IF total = 0 THEN << >>
        ELSE [miner_id \in {shares[i].miner_id : i \in window} |->
                 MulDiv(reward, MinerShareCount(shares, window, miner_id), total)]

\* PayoutCalculator::CalculatePPS, for expected_shares_per_block above 0.
CalculatePPS(shares, expected_shares_per_block, block_reward, pool_fee) ==
    LET fee == CalculateFee(block_reward, pool_fee)
        reward_per_share == (block_reward - fee) \div expected_shares_per_block
        valid == {i \in 1..Len(shares) : shares[i].valid}
    IN  [miner_id \in {shares[i].miner_id : i \in valid} |->
            reward_per_share * MinerShareCount(shares, valid, miner_id)]

\* HashrateCalculator::CalculateExpectedShares.
CalculateExpectedShares(network_difficulty, share_difficulty) ==
    IF share_difficulty = 0 THEN 0 ELSE network_difficulty \div share_difficulty

\* The block reward CalculatePPSPayouts assumes.  pool.cpp takes 50 *
\* 100000000 base units, which the model counts in hundreds of base units
\* (every fee and every per-share reward of the model is a multiple of one
\* hundred there); mining_pool_server.cpp takes 50 * 1000000.
PpsBlockReward == 50 * 1000000

\* Adds payouts[m] to the unpaid balance of every miner m of the map that
\* the pool knows.
CreditUnpaid(miners, credits) ==
    [m \in DOMAIN miners |->
        IF m \in DOMAIN credits
        THEN [miners[m] EXCEPT !.unpaid_balance = @ + credits[m]]
        ELSE miners[m]]

RECURSIVE SumOver(_, _)
SumOver(f, S) ==
    IF S = {} THEN 0
    ELSE LET x == CHOOSE x \in S : TRUE
         IN  f[x] + SumOver(f, S \ {x})

MaxDistributed == 201

\* The recorded shares of a run, but for the run of the 1000 shares of the
\* PPLNS example, whose PPS sums the model's integers cannot hold.
MaxRecorded == 3

MaxPayments == 4

\* Block rewards a caller hands to CalculatePPLNSPayouts.
BlockRewards == {100, 101, 100000000}

\* MiningPoolServer::CalculatePPLNSPayouts.  pool.cpp hands recent_shares_
\* to the PayoutCalculator and returns its map; mining_pool_server.cpp
\* computes the same map under mutex_, adds it to the unpaid balances and
\* to the pool's totals.
CalculatePPLNSPayoutsCall(block_reward) ==
    /\ IF build = "pool.cpp"
       THEN /\ payouts' = CalculatePPLNS(recent_shares_, config_.pplns_window,
                              block_reward, config_.pool_fee_percent)
            /\ UNCHANGED <<miners_, total_paid_, pool_revenue_>>
       ELSE /\ "mutex_" \notin stuck
            /\ total_paid_ + pool_revenue_ < MaxDistributed
            /\ LET fee == (block_reward * config_.pool_fee_percent) \div 100
                   total_payout == block_reward - fee
                   window == PayoutWindow(recent_shares_, config_.pplns_window)
                   window_share_count == Cardinality(window)
                   computed ==
                       [miner_id \in {recent_shares_[i].miner_id : i \in window} |->
                           MulDiv(total_payout,
                                  MinerShareCount(recent_shares_, window, miner_id),
                                  window_share_count)]
               IN  IF window_share_count = 0
                   THEN /\ payouts' = << >>
                        /\ UNCHANGED <<miners_, total_paid_, pool_revenue_>>
                   ELSE /\ payouts' = computed
                        /\ miners_' = CreditUnpaid(miners_, computed)
                        /\ total_paid_' = total_paid_ + total_payout
                        /\ pool_revenue_' = pool_revenue_ + fee
    /\ UNCHANGED <<build, relock, config_, now, username_to_miner_id_, workers_,
                   worker_to_miner_, miner_workers_, next_miner_id_, next_worker_id_,
                   next_share_id_, next_round_id_, recent_shares_, current_round_,
                   round_history_, current_work_, next_job_, stuck, result,
                   stratumVars, calculated, payment_history_, next_payment_id_,
                   sessionVars, securityVars, measureVars, lockVars, readerVars>>

\* MiningPoolServer::CalculatePPSPayouts.  pool.cpp returns the map of the
\* PayoutCalculator; mining_pool_server.cpp adds the per-share reward to
\* the unpaid balance for every recorded share, at every call.
\* What the division of a uint64_t by zero does, which is undefined: the
\* processor raises a fault and the process is killed, or the instruction
\* yields 0.
DivisionByZeroOutcomes == {"SIGFPE", "zero"}

\* The process was killed by a signal inside the last call.
Killed == [status |-> "killed", error |-> <<"SIGFPE">>]

\* CalculatePPSPayouts when Blockchain::GetDifficulty returns
\* network_difficulty and a division by zero does what outcome says.
CalculatePPSPayoutsAt(network_difficulty, outcome) ==
    /\ Len(recent_shares_) <= MaxRecorded
    /\ result # Killed
    /\ IF build = "pool.cpp"
       THEN LET expected_shares ==
                    CalculateExpectedShares(network_difficulty,
                                            config_.initial_difficulty)
            IN  /\ IF expected_shares # 0
                   THEN /\ payouts' = CalculatePPS(recent_shares_, expected_shares,
                                          PpsBlockReward, config_.pool_fee_percent)
                        /\ UNCHANGED result
                   ELSE IF outcome = "SIGFPE"
                   THEN /\ result' = Killed
                        /\ UNCHANGED payouts
                   ELSE /\ payouts' =
                               [m \in DOMAIN CalculatePPS(recent_shares_, 1,
                                          PpsBlockReward, config_.pool_fee_percent)
                                   |-> 0]
                        /\ UNCHANGED result
                /\ UNCHANGED <<miners_, total_paid_, pool_revenue_>>
       ELSE /\ "mutex_" \notin stuck
            /\ total_paid_ + pool_revenue_ < MaxDistributed
            /\ UNCHANGED result
            /\ LET quotient == network_difficulty \div config_.initial_difficulty
                   expected_shares == IF quotient = 0 THEN 1 ELSE quotient
                   computed == CalculatePPS(recent_shares_, expected_shares,
                                   PpsBlockReward, config_.pool_fee_percent)
                   total_payout == SumOver(computed, DOMAIN computed)
                   reward_per_share ==
                       (PpsBlockReward
                          - (PpsBlockReward * config_.pool_fee_percent) \div 100)
                       \div expected_shares
               IN  /\ payouts' = computed
                   /\ miners_' = CreditUnpaid(miners_, computed)
                   /\ total_paid_' = total_paid_ + total_payout
                   /\ pool_revenue_' = pool_revenue_
                          + (reward_per_share * Len(recent_shares_) - total_payout)
    /\ UNCHANGED <<build, relock, config_, now, username_to_miner_id_, workers_,
                   worker_to_miner_, miner_workers_, next_miner_id_, next_worker_id_,
                   next_share_id_, next_round_id_, recent_shares_, current_round_,
                   round_history_, current_work_, next_job_, stuck,
                   stratumVars, calculated, payment_history_, next_payment_id_,
                   sessionVars, securityVars, measureVars, lockVars, readerVars>>

\* CalculatePPSPayouts with the difficulty of the chain of the other runs,
\* at which expected_shares is not 0.
CalculatePPSPayoutsCall == CalculatePPSPayoutsAt(ChainDifficulty, "zero")

\* PayoutDue without the comparison with min_payout.
PayoutDueWhateverTheBalance(miners, t) ==
    {m \in DOMAIN miners :
        ~(t - miners[m].last_payout < config_.payout_interval)}

\* The miners ProcessPayouts pays at time t: those whose unpaid balance
\* has reached min_payout and whose last payout lies payout_interval
\* seconds back.
PayoutDue(miners, t) ==
    {m \in DOMAIN miners :
        /\ ~(miners[m].unpaid_balance < config_.min_payout)
        /\ ~(t - miners[m].last_payout < config_.payout_interval)}

\* The Payment ProcessPayouts creates for a miner.
NewPayment(payment_id, miner_id, amount, t) ==
    [ payment_id   |-> payment_id,
      miner_id     |-> miner_id,
      amount       |-> amount,
      created_at   |-> t,
      is_confirmed |-> FALSE,
      status       |-> "pending" ]

\* The balances of a miner after ProcessPayouts has created its payment.
\* Only mining_pool_server.cpp adds the amount to paid_balance.
PaidOut(miner, t) ==
    [miner EXCEPT
        !.paid_balance = IF build = "pool.cpp" THEN @ ELSE @ + miner.unpaid_balance,
        !.unpaid_balance = 0,
        !.last_payout = t]

\* MiningPoolServer::ProcessPayouts: one pass over miners_ in the order of
\* the miner ids.
ProcessPayoutsCall ==
    /\ "mutex_" \notin stuck
    /\ LET due == PayoutDue(miners_, now)
           position(m) == Cardinality({k \in due : k < m}) + 1
           created == [i \in 1..Cardinality(due) |->
                          LET m == CHOOSE m \in due : position(m) = i
                          IN  NewPayment(next_payment_id_ + i - 1, m,
                                         miners_[m].unpaid_balance, now)]
       IN  /\ next_payment_id_ + Cardinality(due) <= MaxPayments + 1
           /\ payment_history_' = payment_history_ \o created
           /\ next_payment_id_' = next_payment_id_ + Cardinality(due)
           /\ miners_' = [m \in DOMAIN miners_ |->
                             IF m \in due THEN PaidOut(miners_[m], now)
                             ELSE miners_[m]]
           /\ result' = Ok
    /\ UNCHANGED <<build, relock, config_, now, username_to_miner_id_, workers_,
                   worker_to_miner_, miner_workers_, next_miner_id_, next_worker_id_,
                   next_share_id_, next_round_id_, recent_shares_, current_round_,
                   round_history_, current_work_, next_job_, stuck,
                   stratumVars, calculated, total_paid_, pool_revenue_, payouts,
                   sessionVars, securityVars, measureVars, lockVars, readerVars>>

PayoutUsernames == <<"alice", "bob", "carol">>

PayoutMiners == Len(PayoutUsernames)

\* The configurations of the payout runs.
PayoutConfigs ==
    { [DefaultConfig EXCEPT !.max_miners = PayoutMiners,
                            !.pplns_window = n,
                            !.pool_fee_percent = f,
                            !.min_payout = p,
                            !.payout_interval = s] :
        n \in {2, 1000}, f \in {0, 1}, p \in {0, 50}, s \in {300, 600} }

\* A share SubmitShare has recorded for the miner's worker.
RecordedShare(share_id, miner_id) ==
    [ share_id   |-> share_id,
      miner_id   |-> miner_id,
      worker_id  |-> miner_id,
      job_id     |-> 1,
      nonce      |-> share_id,
      share_hash |-> HashWithLeadingZeros(32),
      difficulty |-> DefaultConfig.initial_difficulty,
      timestamp  |-> StartTime,
      valid      |-> TRUE,
      is_block   |-> FALSE ]

\* The miners of up to MaxRecorded recorded shares, in the order recorded.
ShortShareLists ==
    UNION { [1..n -> 1..PayoutMiners] : n \in 0..MaxRecorded }

\* 300 shares of miner 1, then 200 of miner 2, then 500 of miner 3.
ExampleShares ==
    [i \in 1..1000 |-> IF i <= 300 THEN 1 ELSE IF i <= 500 THEN 2 ELSE 3]

\* A pool with PayoutMiners miners of one worker each, after the shares of
\* the list were accepted.
InitPayout ==
    /\ build \in Builds
    /\ relock \in RelockOutcomes
    /\ InitStratumState
    /\ InitPayState
    /\ InitSecurityState
    /\ now = StartTime
    /\ \E owners \in ShortShareLists \cup {ExampleShares} :
          /\ IF owners = ExampleShares
             THEN config_ = [DefaultConfig EXCEPT !.max_miners = PayoutMiners]
             ELSE config_ \in PayoutConfigs
          /\ recent_shares_ = [i \in 1..Len(owners) |-> RecordedShare(i, owners[i])]
          /\ next_share_id_ = Len(owners) + 1
          /\ miners_ = [m \in 1..PayoutMiners |->
                [NewMiner(PayoutUsernames[m]) EXCEPT
                    !.workers = IF build = "pool.cpp" THEN {m} ELSE {},
                    !.total_shares_submitted =
                        Cardinality({i \in 1..Len(owners) : owners[i] = m}),
                    !.total_shares_accepted =
                        Cardinality({i \in 1..Len(owners) : owners[i] = m})]]
          /\ workers_ = [w \in 1..PayoutMiners |->
                [NewWorker(w, DefaultConfig.initial_difficulty,
                           IF build = "pool.cpp" THEN 0 ELSE StartTime) EXCEPT
                    !.shares_submitted =
                        Cardinality({i \in 1..Len(owners) : owners[i] = w}),
                    !.shares_accepted =
                        Cardinality({i \in 1..Len(owners) : owners[i] = w})]]
          /\ current_round_ =
                [NewRound(1, StartTime) EXCEPT
                    !.shares_submitted = Len(owners),
                    !.miner_shares =
                        [m \in {owners[i] : i \in 1..Len(owners)} |->
                            Cardinality({i \in 1..Len(owners) : owners[i] = m})]]
    /\ username_to_miner_id_ =
          [u \in {PayoutUsernames[m] : m \in 1..PayoutMiners} |->
              CHOOSE m \in 1..PayoutMiners : PayoutUsernames[m] = u]
    /\ worker_to_miner_ = [w \in 1..PayoutMiners |-> w]
    /\ miner_workers_ = IF build = "pool.cpp" THEN << >>
                        ELSE [m \in 1..PayoutMiners |-> {m}]
    /\ next_miner_id_ = PayoutMiners + 1
    /\ next_worker_id_ = PayoutMiners + 1
    /\ next_round_id_ = 2
    /\ round_history_ = << >>
    /\ current_work_ = <<NewWork(1, StartTime)>>
    /\ next_job_ = 2
    /\ stuck = {}
    /\ result = Pending
    /\ calculated = << >>

NextPayout ==
    \/ Tick
    \/ \E block_reward \in BlockRewards : CalculatePPLNSPayoutsCall(block_reward)
    \/ CalculatePPSPayoutsCall
    \/ ProcessPayoutsCall

SpecPayout == InitPayout /\ [][NextPayout]_vars

\* What Blockchain::GetDifficulty returns: a difficulty below the share
\* difficulty of the configuration, and that of the other runs.
NetworkDifficulties == {DefaultConfig.min_difficulty, ChainDifficulty}

NextPps ==
    \E network_difficulty \in NetworkDifficulties, outcome \in DivisionByZeroOutcomes :
        CalculatePPSPayoutsAt(network_difficulty, outcome)

SpecPps == InitPayout /\ [][NextPps]_vars

----------------------------------------------------------------------------
(* The Stratum server: the life of a session, the sweep and Stop *)

\* StratumServer::connection_timeout_, in seconds.
ConnectionTimeout == 300

MaxSessionTicks == 2

\* The lines the clients of these runs send.
SessionMessages ==
    [method : {"mining.authorize"},
     id : RequestIds, nparams : {2}, user : {"alice"}, job_id : {0}, nonce : {0}]

\* What no step of the Stratum threads below writes.
settled == <<build, relock, config_, payVars, calculated, securityVars, measureVars,
            lockVars, readerVars>>

\* MiningPoolServer::RemoveWorker, called with mutex_ free.
RemoveWorker(P, worker_id) ==
    IF worker_id \notin DOMAIN P.workers_ THEN [P EXCEPT !.result = result]
    ELSE LET miner_id == IF build = "pool.cpp" THEN P.worker_to_miner_[worker_id]
                         ELSE P.workers_[worker_id].miner_id
         IN  [P EXCEPT
                 !.miners_ = [m \in DOMAIN @ |->
                                 IF m = miner_id /\ build = "pool.cpp"
                                 THEN [@[m] EXCEPT !.workers = @ \ {worker_id}]
                                 ELSE @[m]],
                 !.miner_workers_ =
                     IF build = "pool.cpp" THEN @
                     ELSE Put(@, miner_id, WorkersIn(@, miner_id) \ {worker_id}),
                 !.workers_ = Remove(@, worker_id),
                 !.worker_to_miner_ = Remove(@, worker_id),
                 !.result = result]

\* StratumServer::RemoveConnection by a thread that has locked
\* connections_mutex_: the pool and the table afterwards, or hung when
\* pool_.RemoveWorker meets a mutex_ that is never released.
RemoveConnection(conn_id) ==
    IF conn_id \notin DOMAIN connections_
    THEN [hung |-> FALSE, pool |-> [Pool EXCEPT !.result = result],
          connections |-> connections_]
    ELSE LET worker_id == connections_[conn_id].worker_id
         IN  IF worker_id # NoWorker /\ "mutex_" \in stuck
             THEN [hung |-> TRUE,
                   pool |-> [Pool EXCEPT !.stuck = @ \cup {"connections_mutex_"},
                                         !.result = result],
                   connections |-> connections_]
             ELSE [hung |-> FALSE,
                   pool |-> IF worker_id # NoWorker THEN RemoveWorker(Pool, worker_id)
                            ELSE [Pool EXCEPT !.result = result],
                   connections |-> Remove(connections_, conn_id)]

\* Time passes while the sessions are watched.
SessionTick ==
    /\ now < StartTime + MaxSessionTicks * TickSeconds
    /\ now' = now + TickSeconds
    /\ UNCHANGED <<settled, poolVars, stratumVars, sessionVars>>

\* AcceptLoop: accept() returns a client and the connection gets its id.
AcceptReturns(ip) ==
    /\ accept_thread_.pc = "accept"
    /\ server_socket_ = "listening"
    /\ next_conn_id_ <= MaxConns
    /\ accept_thread_' = [pc |-> "insert", conn_id |-> next_conn_id_, ip |-> ip,
                         last_activity |-> now]
    /\ next_conn_id_' = next_conn_id_ + 1
    /\ UNCHANGED <<settled, now, poolVars, connections_, outbox, inbox, pc, handling,
                   is_running_, server_socket_, timeout_thread_, stop_call, activity>>

\* AcceptLoop: the connection enters the table under connections_mutex_;
\* its HandleClient thread does not run yet.
AcceptInsert ==
    /\ accept_thread_.pc = "insert"
    /\ "connections_mutex_" \notin stuck
    /\ LET conn_id == accept_thread_.conn_id
       IN  /\ connections_' = Put(connections_, conn_id,
                  [ worker_id  |-> NoWorker,
                    ip_address |-> accept_thread_.ip,
                    subscribed |-> FALSE,
                    authorized |-> FALSE,
                    open       |-> TRUE ])
           /\ activity' = Put(activity, conn_id,
                  [last_activity |-> accept_thread_.last_activity, received_at |-> 0,
                   unrecorded |-> FALSE, eof |-> FALSE])
           /\ pc' = Put(pc, conn_id, "none")
           /\ outbox' = Put(outbox, conn_id, << >>)
           /\ inbox' = Put(inbox, conn_id, << >>)
           /\ handling' = Put(handling, conn_id, Idle)
    /\ accept_thread_' = [accept_thread_ EXCEPT !.pc = "count"]
    /\ UNCHANGED <<settled, now, poolVars, next_conn_id_, is_running_, server_socket_,
                   timeout_thread_, stop_call>>

\* AcceptLoop: CountConnectionsFromIP locks connections_mutex_ again; under
\* the limit the HandleClient thread of the connection is started.
AcceptCount ==
    /\ accept_thread_.pc = "count"
    /\ "connections_mutex_" \notin stuck
    /\ LET conn_id == accept_thread_.conn_id
           refused == CountConnectionsFromIP(connections_, accept_thread_.ip)
                          >= MaxConnectionsPerIp
       IN  /\ connections_' =
                  IF refused /\ conn_id \in DOMAIN connections_
                  THEN [connections_ EXCEPT ![conn_id].open = FALSE]
                  ELSE connections_
           /\ pc' = Put(pc, conn_id, IF refused THEN "none" ELSE "recv")
    /\ accept_thread_' = [accept_thread_ EXCEPT !.pc = "accept"]
    /\ UNCHANGED <<settled, now, poolVars, next_conn_id_, outbox, inbox, handling,
                   is_running_, server_socket_, timeout_thread_, stop_call, activity>>

\* AcceptLoop ends: is_running_ is false at the head of the loop, or
\* accept() fails on the closed listener.
AcceptExit ==
    /\ accept_thread_.pc = "accept"
    /\ ~is_running_
    /\ accept_thread_' = [accept_thread_ EXCEPT !.pc = "done"]
    /\ UNCHANGED <<settled, now, poolVars, stratumVars, is_running_, server_socket_,
                   timeout_thread_, stop_call, activity>>

\* The client of a connection writes one line while its thread waits in
\* recv.
ClientWrites(conn_id, msg) ==
    /\ conn_id \in DOMAIN connections_
    /\ conn_id \in DOMAIN pc
    /\ pc[conn_id] = "recv"
    /\ inbox[conn_id] = << >>
    /\ ~activity[conn_id].unrecorded
    /\ ~activity[conn_id].eof
    /\ Len(outbox[conn_id]) < MaxOutbox
    /\ inbox' = [inbox EXCEPT ![conn_id] = <<msg>>]
    /\ activity' = [activity EXCEPT ![conn_id].received_at = now,
                                    ![conn_id].unrecorded = TRUE]
    /\ UNCHANGED <<settled, now, poolVars, connections_, next_conn_id_, outbox, pc,
                   handling, is_running_, server_socket_, accept_thread_,
                   timeout_thread_, stop_call>>

\* The client of a connection closes its end.
ClientCloses(conn_id) ==
    /\ conn_id \in DOMAIN pc
    /\ conn_id \in DOMAIN activity
    /\ ~activity[conn_id].eof
    /\ inbox[conn_id] = << >>
    /\ activity' = [activity EXCEPT ![conn_id].eof = TRUE]
    /\ UNCHANGED <<settled, now, poolVars, stratumVars, is_running_, server_socket_,
                   accept_thread_, timeout_thread_, stop_call>>

\* HandleClient: UpdateActivity after the lines read were processed.
UpdateActivity(conn_id) ==
    /\ conn_id \in DOMAIN pc
    /\ pc[conn_id] = "recv"
    /\ inbox[conn_id] = << >>
    /\ activity[conn_id].unrecorded
    /\ "connections_mutex_" \notin stuck
    /\ activity' = [activity EXCEPT
           ![conn_id].last_activity =
               IF conn_id \in DOMAIN connections_ THEN now ELSE @,
           ![conn_id].unrecorded = FALSE]
    /\ UNCHANGED <<settled, now, poolVars, stratumVars, is_running_, server_socket_,
                   accept_thread_, timeout_thread_, stop_call>>

\* HandleClient leaves its loop (is_running_ is false, or recv returns
\* nothing: the client closed, or the socket was closed or is gone from
\* the table) and calls RemoveConnection.
HandleClientExit(conn_id) ==
    /\ conn_id \in DOMAIN pc
    /\ pc[conn_id] = "recv"
    /\ inbox[conn_id] = << >>
    /\ ~activity[conn_id].unrecorded
    /\ \/ ~is_running_
       \/ activity[conn_id].eof
       \/ conn_id \notin DOMAIN connections_
    /\ "connections_mutex_" \notin stuck
    /\ LET removed == RemoveConnection(conn_id)
       IN  /\ ApplyPool(removed.pool)
           /\ connections_' = removed.connections
           /\ pc' = [pc EXCEPT ![conn_id] = IF removed.hung THEN "hung" ELSE "done"]
    /\ UNCHANGED <<settled, now, next_conn_id_, inbox, handling, sessionVars>>

\* TimeoutMonitorLoop: the sleep of 30 seconds is over and is_running_ is
\* read.
TimeoutWake ==
    /\ timeout_thread_.pc = "sleep"
    /\ timeout_thread_' = [timeout_thread_ EXCEPT
           !.pc = IF is_running_ THEN "scan" ELSE "done"]
    /\ UNCHANGED <<settled, now, poolVars, stratumVars, is_running_, server_socket_,
                   accept_thread_, stop_call, activity>>

\* The connections whose last_activity lies more than connection_timeout_
\* back, in the order of the table.
RECURSIVE IdleConnections(_, _)
IdleConnections(conns, t) ==
    IF conns = {} THEN << >>
    ELSE LET conn_id == CHOOSE c \in conns : \A d \in conns : c <= d
             rest == IdleConnections(conns \ {conn_id}, t)
         IN  IF t - activity[conn_id].last_activity > ConnectionTimeout
             THEN <<conn_id>> \o rest
             ELSE rest

\* TimeoutMonitorLoop: the idle connections are collected under
\* connections_mutex_.
TimeoutScan ==
    /\ timeout_thread_.pc = "scan"
    /\ "connections_mutex_" \notin stuck
    /\ LET idle == IdleConnections(DOMAIN connections_, now)
       IN  timeout_thread_' = [pc |-> "remove", timeout_connections |-> idle,
                               found |-> idle # << >>]
    /\ UNCHANGED <<settled, now, poolVars, stratumVars, is_running_, server_socket_,
                   accept_thread_, stop_call, activity>>

\* TimeoutMonitorLoop: RemoveConnection for the next collected connection.
TimeoutRemove ==
    /\ timeout_thread_.pc = "remove"
    /\ timeout_thread_.timeout_connections # << >>
    /\ "connections_mutex_" \notin stuck
    /\ LET removed == RemoveConnection(Head(timeout_thread_.timeout_connections))
       IN  /\ ApplyPool(removed.pool)
           /\ connections_' = removed.connections
           /\ timeout_thread_' =
                  IF removed.hung THEN [timeout_thread_ EXCEPT !.pc = "hung"]
                  ELSE [timeout_thread_ EXCEPT !.timeout_connections = Tail(@)]
    /\ UNCHANGED <<settled, now, next_conn_id_, inbox, pc, handling, is_running_,
                   server_socket_, accept_thread_, stop_call, activity>>

\* TimeoutMonitorLoop: the end of a round.  When nothing was collected the
\* argument of LogDebug is built, with GetConnectionCount locking
\* connections_mutex_.
TimeoutRoundEnds ==
    /\ timeout_thread_.pc = "remove"
    /\ timeout_thread_.timeout_connections = << >>
    /\ timeout_thread_.found \/ "connections_mutex_" \notin stuck
    /\ timeout_thread_' = [pc |-> "sleep", timeout_connections |-> << >>,
                           found |-> FALSE]
    /\ UNCHANGED <<settled, now, poolVars, stratumVars, is_running_, server_socket_,
                   accept_thread_, stop_call, activity>>

\* StratumServer::Stop: is_running_ is cleared.
StopCall ==
    /\ stop_call = "none"
    /\ is_running_
    /\ is_running_' = FALSE
    /\ stop_call' = "lock"
    /\ UNCHANGED <<settled, now, poolVars, stratumVars, server_socket_, accept_thread_,
                   timeout_thread_, activity>>

\* Stop: under connections_mutex_, which it owns until it returns, every
\* socket is closed, the table cleared and the listener closed.
StopCloseAll ==
    /\ stop_call = "lock"
    /\ "connections_mutex_" \notin stuck
    /\ stuck' = stuck \cup {"connections_mutex_"}
    /\ connections_' = << >>
    /\ server_socket_' = "closed"
    /\ stop_call' = "join_accept"
    /\ UNCHANGED <<settled, now, miners_, username_to_miner_id_, workers_,
                   worker_to_miner_, miner_workers_, next_miner_id_, next_worker_id_, next_share_id_,
                   next_round_id_, recent_shares_, current_round_, round_history_,
                   current_work_, next_job_, result, next_conn_id_, outbox, inbox, pc,
                   handling, is_running_, accept_thread_, timeout_thread_, activity>>

\* Stop: accept_thread_.join()
StopJoinAccept ==
    /\ stop_call = "join_accept"
    /\ accept_thread_.pc = "done"
    /\ stop_call' = "join_timeout"
    /\ UNCHANGED <<settled, now, poolVars, stratumVars, is_running_, server_socket_,
                   accept_thread_, timeout_thread_, activity>>

\* Stop: timeout_thread_.join(), and the return, which releases
\* connections_mutex_.
StopJoinTimeout ==
    /\ stop_call = "join_timeout"
    /\ timeout_thread_.pc = "done"
    /\ stop_call' = "returned"
    /\ stuck' = stuck \ {"connections_mutex_"}
    /\ UNCHANGED <<settled, now, miners_, username_to_miner_id_, workers_,
                   worker_to_miner_, miner_workers_, next_miner_id_, next_worker_id_, next_share_id_,
                   next_round_id_, recent_shares_, current_round_, round_history_,
                   current_work_, next_job_, result, stratumVars, is_running_,
                   server_socket_, accept_thread_, timeout_thread_, activity>>

\* The steps of the HandleClient thread of a connection.
HandleClientStep(conn_id) ==
    \/ AuthorizeLookup(conn_id)
    \/ AuthorizeRegister(conn_id)
    \/ AuthorizeAddWorker(conn_id)
    \/ AuthorizeMark(conn_id)
    \/ AuthorizeReply(conn_id)
    \/ AuthorizeDifficulty(conn_id)
    \/ AuthorizeNotify(conn_id)
    \/ UpdateActivity(conn_id)
    \/ HandleClientExit(conn_id)

AcceptStep == AcceptInsert \/ AcceptCount \/ AcceptExit

TimeoutStep == TimeoutWake \/ TimeoutScan \/ TimeoutRemove \/ TimeoutRoundEnds

StopStep == StopCloseAll \/ StopJoinAccept \/ StopJoinTimeout

NextSession ==
    \/ SessionTick
    \/ \E ip \in ClientIps : AcceptReturns(ip)
    \/ AcceptInsert
    \/ AcceptCount
    \/ AcceptExit
    \/ \E conn_id \in 1..MaxConns, msg \in SessionMessages : ClientWrites(conn_id, msg)
    \/ \E conn_id \in 1..MaxConns : ClientCloses(conn_id)
    \/ \E conn_id \in 1..MaxConns : AuthorizeLookup(conn_id)
    \/ \E conn_id \in 1..MaxConns : AuthorizeRegister(conn_id)
    \/ \E conn_id \in 1..MaxConns : AuthorizeAddWorker(conn_id)
    \/ \E conn_id \in 1..MaxConns : AuthorizeMark(conn_id)
    \/ \E conn_id \in 1..MaxConns : AuthorizeReply(conn_id)
    \/ \E conn_id \in 1..MaxConns : AuthorizeDifficulty(conn_id)
    \/ \E conn_id \in 1..MaxConns : AuthorizeNotify(conn_id)
    \/ \E conn_id \in 1..MaxConns : UpdateActivity(conn_id)
    \/ \E conn_id \in 1..MaxConns : HandleClientExit(conn_id)
    \/ TimeoutWake
    \/ TimeoutScan
    \/ TimeoutRemove
    \/ TimeoutRoundEnds
    \/ StopCall
    \/ StopCloseAll
    \/ StopJoinAccept
    \/ StopJoinTimeout

SpecSession == Init /\ [][NextSession]_vars

\* The operating system runs every thread that can take a step.
SpecSessionFair ==
    /\ SpecSession
    /\ WF_vars(AcceptStep)
    /\ WF_vars(TimeoutStep)
    /\ WF_vars(StopStep)
    /\ \A conn_id \in 1..MaxConns : WF_vars(HandleClientStep(conn_id))

----------------------------------------------------------------------------
(* The Stratum server: admission of connections by address *)

\* Connections the accept loop takes while admission is watched.
MaxAdmissions == 11

\* Sessions that end while admission is watched.
MaxEnded == 1

AdmissionIps == {"10.0.0.1", "10.0.0.2"}

\* A HandleClient thread that reads end of file leaves its loop and
\* RemoveConnection erases its entry.
SessionEnds(conn_id) ==
    /\ conn_id \in DOMAIN connections_
    /\ pc[conn_id] = "recv"
    /\ inbox[conn_id] = << >>
    /\ next_conn_id_ - 1 - Cardinality(DOMAIN connections_) < MaxEnded
    /\ "connections_mutex_" \notin stuck
    /\ LET removed == RemoveConnection(conn_id)
       IN  /\ ApplyPool(removed.pool)
           /\ connections_' = removed.connections
           /\ pc' = [pc EXCEPT ![conn_id] = "done"]
    /\ UNCHANGED <<fixed, now, next_conn_id_, outbox, inbox, handling, calculated>>

NextAdmission ==
    \/ \E ip \in AdmissionIps : AcceptRound(ip, MaxAdmissions)
    \/ \E conn_id \in 1..MaxAdmissions : SessionEnds(conn_id)

SpecAdmission == Init /\ [][NextAdmission]_vars

----------------------------------------------------------------------------
(* Security: bans of miners, blocked addresses, and authorize *)

\* Durations BanMiner and BlockIP are called with.
BanDurations == {TickSeconds}

\* MiningPoolServer::BanMiner, called with mutex_ free.
BanMiner(P, miner_id, duration) ==
    IF miner_id \in DOMAIN P.miners_
    THEN [P EXCEPT !.miners_[miner_id].is_banned = TRUE,
                   !.miners_[miner_id].ban_expires = now + duration]
    ELSE P

\* MiningPoolServer::UnbanMiner
UnbanMiner(P, miner_id) ==
    IF miner_id \in DOMAIN P.miners_
    THEN [P EXCEPT !.miners_[miner_id].is_banned = FALSE]
    ELSE P

\* MiningPoolServer::IsMinerBanned
IsMinerBanned(miner_id) ==
    IF miner_id \notin DOMAIN miners_ THEN FALSE
    ELSE IF ~miners_[miner_id].is_banned THEN FALSE
    ELSE IF now >= miners_[miner_id].ban_expires THEN FALSE
    ELSE TRUE

\* MiningPoolServer::IsIPBlocked
IsIPBlocked(ip) ==
    IF ip \notin DOMAIN banned_ips_ THEN FALSE
    ELSE now < banned_ips_[ip]

BanMinerCall(miner_id, duration) ==
    /\ "mutex_" \notin stuck
    /\ miner_id \in DOMAIN miners_
    /\ ApplyPool([BanMiner(Pool, miner_id, duration) EXCEPT !.result = result])
    /\ UNCHANGED <<fixed, now, connections_, next_conn_id_, inbox, pc, handling,
                   calculated>>

UnbanMinerCall(miner_id) ==
    /\ "mutex_" \notin stuck
    /\ miner_id \in DOMAIN miners_
    /\ miners_[miner_id].is_banned
    /\ ApplyPool([UnbanMiner(Pool, miner_id) EXCEPT !.result = result])
    /\ UNCHANGED <<fixed, now, connections_, next_conn_id_, inbox, pc, handling,
                   calculated>>

\* MiningPoolServer::BlockIP; only pool.cpp defines it.
BlockIPCall(ip, duration) ==
    /\ build = "pool.cpp"
    /\ banned_ips_' = Put(banned_ips_, ip, now + duration)
    /\ UNCHANGED <<build, relock, config_, now, poolVars, stratumVars, calculated,
                   payVars, sessionVars, measureVars, lockVars, readerVars>>

\* The mining.authorize a client sends with both parameters.
AuthorizeMessages == {msg \in Messages : msg.method = "mining.authorize" /\ msg.nparams = 2}

NextSecurity ==
    \/ Tick
    \/ \E username \in {"alice"} : RegisterMinerCall(username)
    \/ \E miner_id \in 1..MaxMiners, duration \in BanDurations :
          BanMinerCall(miner_id, duration)
    \/ \E miner_id \in 1..MaxMiners : UnbanMinerCall(miner_id)
    \/ \E ip \in ClientIps, duration \in BanDurations : BlockIPCall(ip, duration)
    \/ \E ip \in ClientIps : Accept(ip)
    \/ \E conn_id \in 1..MaxConns, msg \in AuthorizeMessages : ClientSend(conn_id, msg)
    \/ \E conn_id \in 1..MaxConns : AuthorizeLookup(conn_id)
    \/ \E conn_id \in 1..MaxConns : AuthorizeRegister(conn_id)
    \/ \E conn_id \in 1..MaxConns : AuthorizeAddWorker(conn_id)
    \/ \E conn_id \in 1..MaxConns : AuthorizeMark(conn_id)
    \/ \E conn_id \in 1..MaxConns : AuthorizeReply(conn_id)
    \/ \E conn_id \in 1..MaxConns : AuthorizeDifficulty(conn_id)
    \/ \E conn_id \in 1..MaxConns : AuthorizeNotify(conn_id)

SpecSecurity == Init /\ [][NextSecurity]_vars

----------------------------------------------------------------------------
(* Counting of rejected shares: one worker submits a run of shares *)

\* Shares the worker submits.
MaxCounted == 5

\* Hashes of the run: one below the difficulty of the worker, one that
\* meets it.
CountedHashes == { HashWithLeadingZeros(31), HashWithLeadingZeros(32) }

\* MiningPoolServer::SubmitShare for the next share of the run; the worker
\* counts its nonce up.
CountedSubmit(worker_id, job_id, share_hash, env) ==
    /\ "mutex_" \notin stuck
    /\ next_share_id_ <= MaxCounted
    /\ env.template_ok => next_job_ <= MaxJobs
    /\ ApplyPool(IF build = "pool.cpp"
                 THEN SubmitShare(Pool, worker_id, job_id, next_share_id_, share_hash, env)
                 ELSE AltSubmitShare(Pool, worker_id, job_id, next_share_id_, share_hash,
                                     env))
    /\ UNCHANGED <<fixed, now, connections_, next_conn_id_, inbox, pc, handling,
                   calculated>>

NextCounted ==
    \/ \E username \in {"alice"} : RegisterMinerCall(username)
    \/ \E miner_id \in 1..MaxMiners : AddWorkerCall(miner_id)
    \/ \E template_ok \in {TRUE} : UpdateWorkCall(template_ok)
    \/ \E worker_id \in 1..MaxWorkers, job_id \in 1..MaxJobs,
          share_hash \in CountedHashes, env \in Environments :
          CountedSubmit(worker_id, job_id, share_hash, env)

SpecCounted == Init /\ [][NextCounted]_vars

----------------------------------------------------------------------------
(* The registry of miners and workers through the pool's own interface *)

\* Miner ids and worker ids handed out while the registry is watched.
MaxRegistered == 3

MaxRegisteredWorkers == 2

\* Usernames callers register and authorize with: the part before the dot,
\* a short name and two of the length of a wallet address.
RegistryNames ==
    { "alice",
      "int1qw508d6qejxtdg4y5r3zarvary0c5xw7k",
      "int1q9h6tlfk5r7d39q8u8x9c5we7y3f0m4s2p" }

\* MiningPoolServer::HandleAuthorize of the pool: a miner id for a new
\* wallet address without a Miner record, and a worker.  pool.cpp enters
\* the worker in workers_ and worker_to_miner_, mining_pool_server.cpp in
\* workers_ and miner_workers_.
PoolHandleAuthorize(P, wallet_address) ==
    IF Len(wallet_address) < 20
    THEN [P EXCEPT !.result = Err(<<"Invalid wallet address">>)]
    ELSE LET known == wallet_address \in DOMAIN P.username_to_miner_id_
             miner_id == IF known THEN P.username_to_miner_id_[wallet_address]
                         ELSE P.next_miner_id_
         IN  [P EXCEPT
                 !.username_to_miner_id_ =
                     IF known THEN @ ELSE Put(@, wallet_address, miner_id),
                 !.next_miner_id_ = IF known THEN @ ELSE @ + 1,
                 !.workers_ = Put(@, P.next_worker_id_,
                     NewWorker(miner_id, config_.initial_difficulty, 0)),
                 !.worker_to_miner_ = Put(@, P.next_worker_id_, miner_id),
                 !.miner_workers_ =
                     IF build = "pool.cpp" THEN @
                     ELSE Put(@, miner_id,
                              WorkersIn(@, miner_id) \cup {P.next_worker_id_}),
                 !.next_worker_id_ = @ + 1,
                 !.result = Ok]

PoolHandleAuthorizeCall(wallet_address) ==
    /\ "mutex_" \notin stuck
    /\ next_miner_id_ <= MaxRegistered
    /\ next_worker_id_ <= MaxRegisteredWorkers
    /\ ApplyPool(PoolHandleAuthorize(Pool, wallet_address))
    /\ UNCHANGED <<fixed, now, connections_, next_conn_id_, inbox, pc, handling,
                   calculated>>

RemoveWorkerCall(worker_id) ==
    /\ "mutex_" \notin stuck
    /\ ApplyPool([RemoveWorker(Pool, worker_id) EXCEPT !.result = Ok])
    /\ UNCHANGED <<fixed, now, connections_, next_conn_id_, inbox, pc, handling,
                   calculated>>

NextRegistry ==
    \/ \E username \in RegistryNames : RegisterMinerUpTo(username, MaxRegistered)
    \/ \E miner_id \in 1..MaxRegistered : AddWorkerUpTo(miner_id, MaxRegisteredWorkers)
    \/ \E wallet_address \in RegistryNames : PoolHandleAuthorizeCall(wallet_address)
    \/ \E worker_id \in 1..MaxRegisteredWorkers : RemoveWorkerCall(worker_id)

SpecRegistry == Init /\ [][NextRegistry]_vars

----------------------------------------------------------------------------
(* The parameters of mining.submit *)

\* extranonce2_size of the subscribe response, in bytes.
Extranonce2Size == 4

\* Submits whose parameters have the widths of the subscribe response and
\* others: job ids of 8 and 32 bytes, extranonce2 of 7, 8 and 10 hex digits,
\* ntime of 4 and 5 bytes, nonces of 4 and 32 bytes.
SubmitMessages ==
    [method : {"mining.submit"},
     id : RequestIds, nparams : {5}, user : {""}, job_id : {1}, nonce : {1},
     hex : [job_id : {16, 64}, extranonce2 : {7, 8, 10}, ntime : {8, 10},
            nonce : {8, 64}]]

NextSubmitParams ==
    \/ \E ip \in ClientIps : Accept(ip)
    \/ \E conn_id \in 1..MaxConns, msg \in AuthorizeMessages \cup SubmitMessages :
          ClientSend(conn_id, msg)
    \/ \E conn_id \in 1..MaxConns, env \in Environments : HandleSubmit(conn_id, env)
    \/ \E conn_id \in 1..MaxConns : AuthorizeLookup(conn_id)
    \/ \E conn_id \in 1..MaxConns : AuthorizeRegister(conn_id)
    \/ \E conn_id \in 1..MaxConns : AuthorizeAddWorker(conn_id)
    \/ \E conn_id \in 1..MaxConns : AuthorizeMark(conn_id)
    \/ \E conn_id \in 1..MaxConns : AuthorizeReply(conn_id)
    \/ \E conn_id \in 1..MaxConns : AuthorizeDifficulty(conn_id)
    \/ \E conn_id \in 1..MaxConns : AuthorizeNotify(conn_id)
    \/ \E template_ok \in {TRUE} : UpdateWorkCall(template_ok)

SpecSubmitParams == Init /\ [][NextSubmitParams]_vars

----------------------------------------------------------------------------
(* CalculateShareDifficulty in isolation *)

\* Hashes are taken as mantissa * 2^shift: a mantissa of up to 16 bits
\* shifted to where the hash lies around the difficulty 1 target.
Mantissas == {1, 3, 255, 65535}

\* Zero bits beyond the 32 of difficulty 1 up to which the difficulty is
\* computed here: 65536 * 2^14 = 2^30 is the largest value it then takes.
MaxExtraZeros == 30 - 16

\* The lowest shift, for which the quotient by a mantissa of 1 is 65535 * 2^14.
MinShift == 208 - MaxExtraZeros

MaxShift == 238

\* Byte i (1 is the most significant) of the uint256 mantissa * 2^shift.
ByteOfShifted(mantissa, shift, i) ==
    LET low == 8 * (32 - i)
    IN  IF shift >= low + 8 THEN 0
        ELSE IF shift >= low THEN (mantissa * Pow2(shift - low)) % 256
        ELSE IF low - shift >= 16 THEN 0
        ELSE (mantissa \div Pow2(low - shift)) % 256

ShiftedHash(mantissa, shift) == [i \in 1..32 |-> ByteOfShifted(mantissa, shift, i)]

\* A call of CalculateShareDifficulty.
MeasureShare(mantissa, shift) ==
    /\ measured = << >>
    /\ LeadingZerosFrom(ShiftedHash(mantissa, shift), 1) <= 32 + MaxExtraZeros
    /\ measured' = <<[ mantissa   |-> mantissa,
                       shift      |-> shift,
                       difficulty |->
                           CalculateShareDifficulty(ShiftedHash(mantissa, shift)) ]>>
    /\ UNCHANGED <<build, relock, config_, now, poolVars, stratumVars, calculated,
                   payVars, sessionVars, securityVars, lockVars, readerVars>>

NextDifficulty ==
    \E mantissa \in Mantissas, shift \in MinShift..MaxShift :
        MeasureShare(mantissa, shift)

SpecDifficulty == Init /\ [][NextDifficulty]_vars

----------------------------------------------------------------------------
(* The calls that leave the process, lock by lock: SendRaw, UpdateWork with
   CreateWork and BroadcastWork, SubmitShare with ProcessBlockFound.  A
   std::lock_guard owns its mutex from its declaration to the end of the
   scope; a thread that blocks for ever passes its mutexes to stuck. *)

\* One miner with one worker, connected and authorized on connection 1.
InitLocks ==
    /\ build \in Builds
    /\ relock \in RelockOutcomes
    /\ InitPayState
    /\ InitSecurityState
    /\ config_ = DefaultConfig
    /\ now = StartTime
    /\ miners_ = [m \in {1} |-> [NewMiner("alice") EXCEPT
                                     !.workers = IF build = "pool.cpp" THEN {1} ELSE {}]]
    /\ miner_workers_ = IF build = "pool.cpp" THEN << >> ELSE [m \in {1} |-> {1}]
    /\ username_to_miner_id_ = [u \in {"alice"} |-> 1]
    /\ workers_ = [w \in {1} |-> NewWorker(1, DefaultConfig.initial_difficulty, 0)]
    /\ worker_to_miner_ = [w \in {1} |-> 1]
    /\ next_miner_id_ = 2
    /\ next_worker_id_ = 2
    /\ next_share_id_ = 1
    /\ next_round_id_ = 2
    /\ recent_shares_ = << >>
    /\ current_round_ = NewRound(1, StartTime)
    /\ round_history_ = << >>
    /\ current_work_ = << >>
    /\ next_job_ = 1
    /\ stuck = {}
    /\ result = Pending
    /\ calculated = << >>
    /\ connections_ = [c \in {1} |-> [ worker_id  |-> 1,
                                       ip_address |-> "10.0.0.1",
                                       subscribed |-> TRUE,
                                       authorized |-> TRUE,
                                       open       |-> TRUE ]]
    /\ next_conn_id_ = 2
    /\ outbox = [c \in {1} |-> << >>]
    /\ inbox = [c \in {1} |-> << >>]
    /\ pc = [c \in {1} |-> "recv"]
    /\ handling = [c \in {1} |-> Idle]
    /\ is_running_ = TRUE
    /\ server_socket_ = "listening"
    /\ accept_thread_ = [pc |-> "accept", conn_id |-> 0, ip |-> "", last_activity |-> 0]
    /\ timeout_thread_ = [pc |-> "sleep", timeout_connections |-> << >>,
                          found |-> FALSE]
    /\ stop_call = "none"
    /\ activity = [c \in {1} |-> [last_activity |-> StartTime, received_at |-> 0,
                                  unrecorded |-> FALSE, eof |-> FALSE]]

\* The lines SendRaw writes to an outbox that holds fewer than this, and the
\* shares submitted.
MaxRawLines == 1

MaxLockedShares == 2

\* No running thread owns mutex m.
Unowned(m) == \A t \in LockThreads : m \notin holds[t]

\* The mutex CreateWork locks.
WorkMutex == IF build = "pool.cpp" THEN "work_mutex_" ELSE "mutex_"

\* What the lock-by-lock steps leave alone beside the pool and the sockets.
aside == <<build, relock, config_, payVars, sessionVars, securityVars, measureVars,
           readerVars, now, connections_, next_conn_id_, inbox, pc, handling, calculated>>

\* SendRaw up to its lock_guard and the lookup of the connection.
SendRawLock(t, conn_id, data) ==
    /\ at[t].pc = "idle"
    /\ conn_id \in DOMAIN connections_
    /\ Len(outbox[conn_id]) < MaxRawLines
    /\ "connections_mutex_" \notin stuck
    /\ Unowned("connections_mutex_")
    /\ holds' = [holds EXCEPT ![t] = @ \cup {"connections_mutex_"}]
    /\ at' = [at EXCEPT ![t] = [pc |-> "send",
                                args |-> [conn_id |-> conn_id, data |-> data]]]
    /\ UNCHANGED <<aside, poolVars, outbox>>

\* SendRaw from send() to the end of its scope.
SendRawSend(t) ==
    /\ at[t].pc = "send"
    /\ outbox' = Send(outbox, at[t].args.conn_id, at[t].args.data)
    /\ holds' = [holds EXCEPT ![t] = @ \ {"connections_mutex_"}]
    /\ at' = [at EXCEPT ![t] = Resting]
    /\ UNCHANGED <<aside, poolVars>>

\* UpdateWork up to the lock_guard of CreateWork.
CreateWorkLock(t) ==
    /\ at[t].pc = "idle"
    /\ WorkMutex \notin stuck
    /\ Unowned(WorkMutex)
    /\ holds' = [holds EXCEPT ![t] = @ \cup {WorkMutex}]
    /\ at' = [at EXCEPT ![t] = [pc |-> "GetBlockTemplate", args |-> << >>]]
    /\ UNCHANGED <<aside, poolVars, outbox>>

\* CreateWork from Blockchain::GetBlockTemplate to its return.  pool.cpp
\* goes on to BroadcastWork, mining_pool_server.cpp returns.
CreateWorkFetch(t, template_ok) ==
    /\ at[t].pc = "GetBlockTemplate"
    /\ template_ok => next_job_ <= MaxJobs
    /\ LET work == NewWork(next_job_, now)
       IN  /\ ApplyPool(
                 IF template_ok
                 THEN [Pool EXCEPT !.current_work_ = <<work>>,
                                   !.next_job_ = @ + 1,
                                   !.result = IF build = "pool.cpp" THEN result ELSE Ok]
                 ELSE [Pool EXCEPT !.result =
                          IF build = "pool.cpp"
                          THEN Err(<<"Failed to create new work: ">>)
                          ELSE Err(<<"Failed to get block template: ">>)])
           /\ at' = [at EXCEPT ![t] =
                        IF template_ok /\ build = "pool.cpp"
                        THEN [pc |-> "BroadcastWork", args |-> work]
                        ELSE Resting]
    /\ holds' = [holds EXCEPT ![t] = @ \ {WorkMutex}]
    /\ UNCHANGED aside

\* StratumServer::BroadcastWork up to its lock_guard.
BroadcastWorkLock(t) ==
    /\ at[t].pc = "BroadcastWork"
    /\ "connections_mutex_" \notin stuck
    /\ Unowned("connections_mutex_")
    /\ holds' = [holds EXCEPT ![t] = @ \cup {"connections_mutex_"}]
    /\ at' = [at EXCEPT ![t] = [pc |-> "SendNotify", args |-> at[t].args]]
    /\ UNCHANGED <<aside, poolVars, outbox>>

\* The loop of BroadcastWork, one SendNotify for every authorized
\* connection, and the return of UpdateWork.
BroadcastWorkSend(t) ==
    /\ at[t].pc = "SendNotify"
    /\ \A c \in DOMAIN outbox : Len(outbox[c]) < MaxOutbox
    /\ LET sent == StratumBroadcastWork(Pool, at[t].args, {})
       IN  /\ ApplyPool(IF sent.result = Hung THEN sent
                        ELSE [sent EXCEPT !.result = Ok])
           /\ at' = [at EXCEPT ![t] =
                        IF sent.result = Hung THEN [pc |-> "hung", args |-> << >>]
                        ELSE Resting]
    /\ holds' = [holds EXCEPT ![t] = {}]
    /\ UNCHANGED aside

\* SubmitShare of the build with the arguments and the bool a thread
\* brought.
SubmitShareOf(P, args, chain_accepts, template_ok) ==
    LET env == [chain_accepts |-> chain_accepts, template_ok |-> template_ok,
                indeterminate |-> args.indeterminate]
    IN  IF build = "pool.cpp"
        THEN SubmitShare(P, args.worker_id, args.job_id, args.nonce,
                         args.share_hash, env)
        ELSE AltSubmitShare(P, args.worker_id, args.job_id, args.nonce,
                            args.share_hash, env)

\* The call reaches Blockchain::AddBlock (SubmitBlock in
\* mining_pool_server.cpp): what the chain answers changes what the call
\* does.
ReachesAddBlock(P, args) ==
    SubmitShareOf(P, args, TRUE, FALSE) # SubmitShareOf(P, args, FALSE, FALSE)

\* SubmitShare up to its lock_guard.
SubmitShareLock(t, worker_id, job_id, nonce, share_hash, indeterminate) ==
    /\ at[t].pc = "idle"
    /\ next_share_id_ <= MaxLockedShares
    /\ "mutex_" \notin stuck
    /\ Unowned("mutex_")
    /\ holds' = [holds EXCEPT ![t] = @ \cup {"mutex_"}]
    /\ at' = [at EXCEPT ![t] =
                 [pc |-> "SubmitShare",
                  args |-> [worker_id |-> worker_id, job_id |-> job_id,
                            nonce |-> nonce, share_hash |-> share_hash,
                            indeterminate |-> indeterminate]]]
    /\ UNCHANGED <<aside, poolVars, outbox>>

\* SubmitShare to its return when the share is no block that is handed to
\* the chain.
SubmitShareReturn(t) ==
    /\ at[t].pc = "SubmitShare"
    /\ ~ReachesAddBlock(Pool, at[t].args)
    /\ build = "pool.cpp" => Unowned("work_mutex_")
    /\ LET done == SubmitShareOf(Pool, at[t].args, FALSE, FALSE)
       IN  /\ ApplyPool(done)
           /\ at' = [at EXCEPT ![t] =
                        IF done.result = Hung THEN [pc |-> "hung", args |-> << >>]
                        ELSE Resting]
    /\ holds' = [holds EXCEPT ![t] = {}]
    /\ UNCHANGED aside

\* SubmitShare up to the call of the chain in ProcessBlockFound: pool.cpp
\* locks work_mutex_ first, mining_pool_server.cpp locks nothing more.
ProcessBlockFoundLock(t) ==
    /\ at[t].pc = "SubmitShare"
    /\ ReachesAddBlock(Pool, at[t].args)
    /\ build = "pool.cpp" => Unowned("work_mutex_")
    /\ holds' = [holds EXCEPT ![t] =
                    IF build = "pool.cpp" THEN @ \cup {"work_mutex_"} ELSE @]
    /\ at' = [at EXCEPT ![t] = [pc |-> "AddBlock", args |-> at[t].args]]
    /\ UNCHANGED <<aside, poolVars, outbox>>

\* ProcessBlockFound of pool.cpp goes on to StratumServer::BroadcastWork:
\* the chain took the block, UpdateWork got a template, and CreateWork came
\* back from locking work_mutex_ a second time.
ReachesBroadcast(chain_accepts, template_ok) ==
    /\ build = "pool.cpp"
    /\ chain_accepts
    /\ template_ok
    /\ relock = "reentrant"

\* ProcessBlockFound from the call of the chain: up to the lock_guard of
\* BroadcastWork when the call reaches it, where the thread still owns
\* mutex_ and work_mutex_ and nothing it wrote can be read by another
\* thread; to the return of SubmitShare otherwise.
ProcessBlockFoundSubmit(t, chain_accepts, template_ok) ==
    /\ at[t].pc = "AddBlock"
    /\ template_ok => next_job_ <= MaxJobs
    /\ IF ReachesBroadcast(chain_accepts, template_ok)
       THEN /\ at' = [at EXCEPT ![t] =
                         [pc |-> "BlockBroadcast",
                          args |-> [call |-> at[t].args,
                                    chain_accepts |-> chain_accepts,
                                    template_ok |-> template_ok]]]
            /\ UNCHANGED <<holds, poolVars, outbox>>
       ELSE /\ LET done == SubmitShareOf(Pool, at[t].args, chain_accepts, template_ok)
               IN  /\ ApplyPool(done)
                   /\ at' = [at EXCEPT ![t] =
                                IF done.result = Hung
                                THEN [pc |-> "hung", args |-> << >>]
                                ELSE Resting]
            /\ holds' = [holds EXCEPT ![t] = {}]
    /\ UNCHANGED aside

\* BroadcastWork called from ProcessBlockFound, from its lock_guard on, and
\* SubmitShare to its return.
BlockBroadcast(t) ==
    /\ at[t].pc = "BlockBroadcast"
    /\ Unowned("connections_mutex_")
    /\ \A c \in DOMAIN outbox : Len(outbox[c]) < MaxOutbox
    /\ LET done == SubmitShareOf(Pool, at[t].args.call, at[t].args.chain_accepts,
                                 at[t].args.template_ok)
       IN  /\ ApplyPool(done)
           /\ at' = [at EXCEPT ![t] =
                        IF done.result = Hung THEN [pc |-> "hung", args |-> << >>]
                        ELSE Resting]
    /\ holds' = [holds EXCEPT ![t] = {}]
    /\ UNCHANGED aside

\* StratumServer::RemoveConnection up to its lock_guard and the lookup of
\* the connection.
RemoveConnectionLock(t, conn_id) ==
    /\ at[t].pc = "idle"
    /\ conn_id \in DOMAIN connections_
    /\ "connections_mutex_" \notin stuck
    /\ Unowned("connections_mutex_")
    /\ holds' = [holds EXCEPT ![t] = @ \cup {"connections_mutex_"}]
    /\ at' = [at EXCEPT ![t] = [pc |-> "RemoveWorker", args |-> conn_id]]
    /\ UNCHANGED <<aside, poolVars, outbox>>

\* RemoveConnection from pool_.RemoveWorker, which locks mutex_, to the end
\* of its scope.
RemoveConnectionErase(t) ==
    /\ at[t].pc = "RemoveWorker"
    /\ connections_[at[t].args].worker_id # NoWorker => Unowned("mutex_")
    /\ LET removed == RemoveConnection(at[t].args)
       IN  /\ ApplyPool(removed.pool)
           /\ connections_' = removed.connections
           /\ pc' = [pc EXCEPT ![at[t].args] = "done"]
           /\ at' = [at EXCEPT ![t] =
                        IF removed.hung THEN [pc |-> "hung", args |-> << >>]
                        ELSE Resting]
    /\ holds' = [holds EXCEPT ![t] = {}]
    /\ UNCHANGED <<build, relock, config_, payVars, sessionVars, securityVars,
                   measureVars, readerVars, now, next_conn_id_, inbox, handling,
                   calculated>>

\* The lines SendRaw is given.
RawLines == {Response(1)}

NextLocks ==
    \E t \in LockThreads :
        \/ \E conn_id \in 1..MaxConns, data \in RawLines : SendRawLock(t, conn_id, data)
        \/ SendRawSend(t)
        \/ CreateWorkLock(t)
        \/ \E template_ok \in BOOLEAN : CreateWorkFetch(t, template_ok)
        \/ BroadcastWorkLock(t)
        \/ BroadcastWorkSend(t)
        \/ \E worker_id \in 1..MaxWorkers, job_id \in 1..MaxJobs, nonce \in {1},
              share_hash \in ShareHashes, indeterminate \in BOOLEAN :
              SubmitShareLock(t, worker_id, job_id, nonce, share_hash, indeterminate)
        \/ SubmitShareReturn(t)
        \/ ProcessBlockFoundLock(t)
        \/ \E chain_accepts \in BOOLEAN, template_ok \in BOOLEAN :
              ProcessBlockFoundSubmit(t, chain_accepts, template_ok)
        \/ BlockBroadcast(t)
        \/ \E conn_id \in 1..MaxConns : RemoveConnectionLock(t, conn_id)
        \/ RemoveConnectionErase(t)

SpecLocks == InitLocks /\ [][NextLocks]_vars

----------------------------------------------------------------------------
(* Two sessions that authorize at the same time *)

MaxSessions == 2

NextTwoSessions ==
    \/ \E ip \in ClientIps : AcceptRound(ip, MaxSessions)
    \/ \E conn_id \in 1..MaxSessions, msg \in AuthorizeMessages : ClientSend(conn_id, msg)
    \/ \E conn_id \in 1..MaxSessions : AuthorizeLookup(conn_id)
    \/ \E conn_id \in 1..MaxSessions : AuthorizeRegister(conn_id)
    \/ \E conn_id \in 1..MaxSessions : AuthorizeAddWorker(conn_id)
    \/ \E conn_id \in 1..MaxSessions : AuthorizeMark(conn_id)
    \/ \E conn_id \in 1..MaxSessions : AuthorizeReply(conn_id)
    \/ \E conn_id \in 1..MaxSessions : AuthorizeDifficulty(conn_id)
    \/ \E conn_id \in 1..MaxSessions : AuthorizeNotify(conn_id)
    \/ \E template_ok \in BOOLEAN : UpdateWorkCall(template_ok)

SpecTwoSessions == Init /\ [][NextTwoSessions]_vars

----------------------------------------------------------------------------
(* HandleClient: the bytes of a connection and the lines dispatched *)

\* '\0', '\n' and a byte that is neither.
Nul == 0

Newline == 10

Bytes == {Nul, Newline, 97}

\* sizeof(buffer) - 1, the most one recv returns.
RecvSize == 4095

\* The length of the streams a client writes.
MaxStream == 4

Streams == UNION {[1..n -> Bytes] : n \in 1..MaxStream}

\* The characters std::string::operator+=(const char*) appends from the
\* buffer: those before the first '\0'.
CString(buffer) ==
    LET nuls == {i \in 1..Len(buffer) : buffer[i] = Nul}
    IN  IF nuls = {} THEN buffer
        ELSE SubSeq(buffer, 1, (CHOOSE i \in nuls : \A j \in nuls : i <= j) - 1)

\* The inner loop of HandleClient: while message_buffer holds a '\n' the
\* text before it is handed to ProcessMessage and cut off with the '\n'.
RECURSIVE TakeLines(_, _)
TakeLines(message_buffer, dispatched) ==
    LET found == {i \in 1..Len(message_buffer) : message_buffer[i] = Newline}
    IN  IF found = {}
        THEN [message_buffer |-> message_buffer, dispatched |-> dispatched]
        ELSE LET pos == CHOOSE i \in found : \A j \in found : i <= j
             IN  TakeLines(SubSeq(message_buffer, pos + 1, Len(message_buffer)),
                           Append(dispatched, SubSeq(message_buffer, 1, pos - 1)))

\* One round of the loop of HandleClient after recv returned buffer.
ReadRound(message_buffer, dispatched, buffer) ==
    TakeLines(message_buffer \o CString(buffer), dispatched)

\* The client writes its bytes to the socket.
ClientWritesStream(stream) ==
    /\ reader = NoStream
    /\ reader' = [reader EXCEPT !.stream = stream, !.unread = stream]
    /\ UNCHANGED <<build, relock, config_, now, poolVars, stratumVars, calculated,
                   payVars, sessionVars, securityVars, measureVars, lockVars>>

\* recv returns the next n bytes and HandleClient goes once through its
\* loop.
Recv(n) ==
    /\ n <= RecvSize
    /\ n <= Len(reader.unread)
    /\ LET buffer == SubSeq(reader.unread, 1, n)
           round == ReadRound(reader.message_buffer, reader.dispatched, buffer)
       IN  reader' = [reader EXCEPT
                         !.unread = SubSeq(@, n + 1, Len(@)),
                         !.message_buffer = round.message_buffer,
                         !.dispatched = round.dispatched]
    /\ UNCHANGED <<build, relock, config_, now, poolVars, stratumVars, calculated,
                   payVars, sessionVars, securityVars, measureVars, lockVars>>

NextFraming ==
    \/ \E stream \in Streams : ClientWritesStream(stream)
    \/ \E n \in 1..MaxStream : Recv(n)

SpecFraming == Init /\ [][NextFraming]_vars

----------------------------------------------------------------------------
(* Properties of share submission over Stratum *)

\* A mining.submit with all its parameters waits for the thread of an
\* authorized connection.
SubmitArrives(conn_id) ==
    /\ Reads(conn_id, {"mining.submit"})
    /\ inbox[conn_id][1].nparams >= 5
    /\ connections_[conn_id].worker_id \in DOMAIN workers_

\* The share SubmitShare builds for that line.
SubmittedShare(conn_id) ==
    LET msg == inbox[conn_id][1]
        worker_id == connections_[conn_id].worker_id
    IN  [ share_id   |-> next_share_id_,
          miner_id   |-> worker_to_miner_[worker_id],
          worker_id  |-> worker_id,
          job_id     |-> msg.job_id,
          nonce      |-> msg.nonce,
          share_hash |-> ZeroHash,
          difficulty |-> workers_[worker_id].current_difficulty,
          timestamp  |-> now,
          valid      |-> FALSE,
          is_block   |-> FALSE ]

\* The line repeats the tuple of a share the pool accepted and recorded
\* less than five minutes ago.
Resubmission(conn_id) ==
    /\ SubmitArrives(conn_id)
    /\ \E i \in DOMAIN recent_shares_ :
          /\ recent_shares_[i].valid
          /\ recent_shares_[i].worker_id = connections_[conn_id].worker_id
          /\ recent_shares_[i].job_id = inbox[conn_id][1].job_id
          /\ recent_shares_[i].nonce = inbox[conn_id][1].nonce
          /\ now - recent_shares_[i].timestamp < 5 * 60

\* What accepted shares have added up to for a worker, its miner and the
\* rounds.
Credit(worker_id) ==
    << workers_[worker_id].shares_accepted,
       miners_[worker_to_miner_[worker_id]].total_shares_accepted,
       current_round_.shares_submitted,
       current_round_.miner_shares,
       round_history_ >>

\* C1: whenever the server handles a mining.submit that repeats the tuple
\* of an already accepted share inside the stale window, it answers with
\* error code 22 and the accepted counts of the worker and the miner and
\* the share tallies of the rounds stay as the first acceptance left them.
ExactlyOnceCredit ==
    [][\A conn_id \in DOMAIN inbox :
          (Resubmission(conn_id) /\ inbox'[conn_id] = << >>)
          => /\ outbox'[conn_id] = Append(outbox[conn_id], ErrorReply(22))
             /\ Credit(connections_[conn_id].worker_id)'
                    = Credit(connections_[conn_id].worker_id)]_vars

\* C4: whenever the server handles a mining.submit whose share passes
\* validation and is a block that the chain then refuses, the client is
\* answered with result true, the share is credited once, and the round
\* stays the open round: it is not appended to the history.
RejectedBlockKeepsShareAndRound ==
    [][\A conn_id \in DOMAIN inbox, env \in Environments :
          ( /\ SubmitArrives(conn_id)
            /\ IF build = "pool.cpp"
               THEN ValidateShare(SubmittedShare(conn_id), Pool) = << >>
               ELSE AltValidateShare(SubmittedShare(conn_id)) = << >>
            /\ current_work_ # << >>
            /\ IsValidBlock(ZeroHash, current_work_[1].difficulty)
            /\ ~env.chain_accepts
            /\ HandleSubmit(conn_id, env) )
          => LET worker_id == connections_[conn_id].worker_id
             IN  /\ outbox'[conn_id]
                        = Append(outbox[conn_id], Response(inbox[conn_id][1].id))
                 /\ workers_'[worker_id].shares_accepted
                        = workers_[worker_id].shares_accepted + 1
                 /\ current_round_'
                        = IncMinerShares(current_round_, worker_to_miner_[worker_id])
                 /\ round_history_' = round_history_]_vars

\* C11: whenever the server has handled a mining.submit for a job that a
\* newer job superseded less than five minutes ago, with a tuple that was
\* not recorded before, the client is answered with result true.
ShareForRetiredJobAccepted ==
    [][\A conn_id \in DOMAIN inbox :
          ( /\ SubmitArrives(conn_id)
            /\ inbox'[conn_id] = << >>
            /\ pc'[conn_id] = "recv"
            /\ current_work_ # << >>
            /\ inbox[conn_id][1].job_id < current_work_[1].job_id
            /\ now - current_work_[1].created_at < 5 * 60
            /\ ~IsDuplicateShare(SubmittedShare(conn_id), recent_shares_) )
          => Last(outbox'[conn_id]) = Response(inbox[conn_id][1].id)]_vars

----------------------------------------------------------------------------
(* Properties of the recorded shares and the rounds *)

\* truncate(pool_diff1_target / 2^p) for the highest set bit p of the hash,
\* with pool_diff1_target = 0xFFFF * 2^208: the exact share difficulty of
\* a hash with one set bit, and an upper limit of the exact share
\* difficulty of every hash with that highest bit.
Diff1Quotient(hash) ==
    LET leading_zeros == LeadingZerosFrom(hash, 1)
    IN  IF hash = ZeroHash THEN UINT64_MAX
        ELSE IF leading_zeros <= 47
             THEN 65535 \div Pow2(47 - leading_zeros)
             ELSE IF leading_zeros - 47 >= 15 THEN UINT64_MAX
                  ELSE 65535 * Pow2(leading_zeros - 47)

\* C2: every share recorded as accepted has a hash whose share difficulty,
\* pool_diff1_target / hash, is at least the difficulty it was credited at.
AcceptedShareMeetsCreditedDifficulty ==
    \A i \in DOMAIN recent_shares_ :
        recent_shares_[i].valid
        => Diff1Quotient(recent_shares_[i].share_hash) >= recent_shares_[i].difficulty

\* C3: the round that takes the shares is open, and every round that was
\* marked complete has been stamped, moved to the history and replaced
\* by a new open round.
RoundClosesOnlyOnAcceptedBlock ==
    /\ ~current_round_.is_complete
    /\ current_round_.ended_at = 0
    /\ \A i \in DOMAIN round_history_ :
          /\ round_history_[i].is_complete
          /\ round_history_[i].round_id < current_round_.round_id

\* C5: a recorded share is marked a block exactly when its hash reaches
\* the network difficulty of its job.
IsBlockIffNetworkTarget ==
    \A i \in DOMAIN recent_shares_ :
        recent_shares_[i].is_block
        <=> Diff1Quotient(recent_shares_[i].share_hash) >= ChainDifficulty

----------------------------------------------------------------------------
(* Properties of the sessions *)

\* C6: whenever a connection that has neither subscribed nor authorized
\* has a line other than mining.subscribe handled, the answer is error 20,
\* the connection table, the miners and the workers are what they were,
\* and the thread is back at reading.
NewSessionRefusesAllButSubscribe ==
    [][\A conn_id \in DOMAIN inbox :
          ( /\ pc[conn_id] = "recv"
            /\ inbox[conn_id] # << >>
            /\ inbox'[conn_id] = << >>
            /\ ~connections_[conn_id].subscribed
            /\ ~connections_[conn_id].authorized
            /\ inbox[conn_id][1].method # "mining.subscribe" )
          => /\ outbox'[conn_id] = Append(outbox[conn_id], ErrorReply(20))
             /\ connections_' = connections_
             /\ miners_' = miners_
             /\ workers_' = workers_
             /\ pc'[conn_id] = "recv"]_vars

\* The difficulty of the last mining.set_difficulty among the lines, in a
\* tuple; the empty tuple if there is none.
RECURSIVE LastSetDifficulty(_)
LastSetDifficulty(lines) ==
    IF lines = << >> THEN << >>
    ELSE IF Last(lines).type = "mining.set_difficulty" THEN << Last(lines).value >>
    ELSE LastSetDifficulty(SubSeq(lines, 1, Len(lines) - 1))

\* C7: whenever a mining.notify is written to a connection that has been
\* told a difficulty, the last mining.set_difficulty written before it
\* carries the difficulty its worker has at that moment: no change made
\* by VarDiff is still unannounced when the next job goes out.
DifficultyPushedBeforeNotify ==
    [][\A conn_id \in DOMAIN outbox :
          \A i \in (Len(outbox[conn_id]) + 1)..Len(outbox'[conn_id]) :
              LET sent == SubSeq(outbox'[conn_id], 1, i)
                  worker_id == connections_'[conn_id].worker_id
              IN  ( /\ Last(sent).type = "mining.notify"
                    /\ worker_id \in DOMAIN workers_'
                    /\ LastSetDifficulty(sent) # << >> )
                  => LastSetDifficulty(sent)
                         = << workers_'[worker_id].current_difficulty >>]_vars

\* C8: from the moment HandleAuthorize has marked the connection
\* authorized until it returns, the only lines written to the connection
\* are, one after the other, the response to the request, one
\* mining.set_difficulty with the difficulty of the worker, and one
\* mining.notify for the current work if there is one.
AuthorizeMessagesInOrder ==
    [][\A conn_id \in DOMAIN pc :
          LET sent == outbox[conn_id]
              worker_id == handling[conn_id].worker_id
          IN  /\ pc[conn_id] = "auth_reply"
                 => \/ outbox'[conn_id] = sent /\ pc'[conn_id] = "auth_reply"
                    \/ /\ pc'[conn_id] = "auth_difficulty"
                       /\ outbox'[conn_id]
                              = Append(sent, Response(handling[conn_id].msg[1].id))
              /\ pc[conn_id] = "auth_difficulty"
                 => \/ outbox'[conn_id] = sent /\ pc'[conn_id] = "auth_difficulty"
                    \/ /\ pc'[conn_id] = "auth_notify"
                       /\ outbox'[conn_id] = Append(sent,
                              SetDifficulty(workers_[worker_id].current_difficulty))
              /\ pc[conn_id] = "auth_notify"
                 => \/ outbox'[conn_id] = sent /\ pc'[conn_id] = "auth_notify"
                    \/ /\ pc'[conn_id] = "recv"
                       /\ outbox'[conn_id] =
                              IF current_work_ # << >>
                              THEN Append(sent, Notify(current_work_[1]))
                              ELSE sent]_vars

----------------------------------------------------------------------------
(* Properties of VarDiff *)

\* C9: the difficulty calculated for a worker of the pool lies between
\* min_difficulty and max_difficulty of the configuration.
VarDiffWithinConfiguredRange ==
    (calculated # << >> /\ calculated[1] \in DOMAIN workers_)
    => /\ calculated[2] >= config_.min_difficulty
       /\ calculated[2] <= config_.max_difficulty

\* old x 1.5 rounded up and old x 0.75 rounded down.
TimesOneAndHalfRoundedUp(d) == (d * 3 + 1) \div 2
TimesThreeQuartersRoundedDown(d) == (d * 3) \div 4

\* The rule of the specification: a step by the ratio of the average
\* share time to the target, kept inside the configured range.
VarDiffStep(worker, cfg) ==
    IF Len(worker.recent_shares) < 3 THEN worker.current_difficulty
    ELSE LET stepped ==
                 IF RatioBelow(worker, cfg)
                 THEN TimesOneAndHalfRoundedUp(worker.current_difficulty)
                 ELSE IF RatioAbove(worker, cfg)
                      THEN TimesThreeQuartersRoundedDown(worker.current_difficulty)
                      ELSE worker.current_difficulty
         IN  IF stepped < cfg.min_difficulty THEN cfg.min_difficulty
             ELSE IF stepped > cfg.max_difficulty THEN cfg.max_difficulty
             ELSE stepped

\* C10: the difficulty calculated for a worker is the one the rule gives:
\* unchanged below 3 timestamps or inside the variance band, x 1.5
\* rounded up for fast shares, x 0.75 rounded down for slow ones.
VarDiffFollowsRule ==
    (calculated # << >> /\ calculated[1] \in DOMAIN workers_)
    => calculated[2] = VarDiffStep(workers_[calculated[1]], config_)

----------------------------------------------------------------------------
(* Properties of the payouts *)

\* The sum of the amounts of the miner's payments whose status is confirmed.
ConfirmedAmount(miner_id) ==
    SumOver([i \in DOMAIN payment_history_ |-> payment_history_[i].amount],
            {i \in DOMAIN payment_history_ :
                /\ payment_history_[i].miner_id = miner_id
                /\ payment_history_[i].status = "confirmed"})

\* C12: in every reachable state the paid_balance of every miner is the
\* sum of the amounts of that miner's confirmed payments, so a payment that
\* is only pending has not changed it.
PaidBalanceIsConfirmedPayments ==
    \A miner_id \in DOMAIN miners_ :
        miners_[miner_id].paid_balance = ConfirmedAmount(miner_id)

\* C13: a step that adds payments to the payment history adds, for each of
\* them, a pending payment of at least min_payout whose amount is the whole
\* unpaid balance its miner had, created no less than payout_interval
\* seconds after every earlier payment to that miner, and takes exactly that
\* amount off the miner's unpaid balance; the payments made before stay.
PayoutsRespectThresholdAndInterval ==
    [][payment_history_' # payment_history_ =>
         /\ Len(payment_history_') > Len(payment_history_)
         /\ SubSeq(payment_history_', 1, Len(payment_history_)) = payment_history_
         /\ \A i \in (Len(payment_history_) + 1)..Len(payment_history_') :
               LET payment == payment_history_'[i]
                   miner_id == payment.miner_id
               IN  /\ payment.amount >= config_.min_payout
                   /\ payment.status = "pending"
                   /\ ~payment.is_confirmed
                   /\ miner_id \in DOMAIN miners_
                   /\ payment.amount = miners_[miner_id].unpaid_balance
                   /\ miners_'[miner_id].unpaid_balance =
                          miners_[miner_id].unpaid_balance - payment.amount
                   /\ \A k \in 1..(i - 1) :
                          payment_history_'[k].miner_id = miner_id =>
                              payment.created_at - payment_history_'[k].created_at
                                  >= config_.payout_interval]_vars

\* Under a min_payout above zero a miner has been paid twice, the second
\* time an amount above zero.
PaidTwice ==
    \E i, j \in DOMAIN payment_history_ :
        /\ i < j
        /\ payment_history_[i].miner_id = payment_history_[j].miner_id
        /\ payment_history_[j].amount > 0
        /\ payment_history_[j].amount >= config_.min_payout
        /\ config_.min_payout > 0

\* C14: a step that closes a round under PPLNS or PROP raises the unpaid
\* balance of every miner that contributed a share to that round (the block
\* reward is above zero, the fee below the whole reward and the round's
\* shares lie within the window, so each contributor's payout is above
\* zero), and under PPS a step that records an accepted share raises the
\* unpaid balance of the share's miner.
RoundCloseCreditsContributors ==
    [][/\ ( /\ config_.payout_method \in {"PPLNS", "PROP"}
            /\ Len(round_history_') > Len(round_history_) )
          => \A miner_id \in DOMAIN Last(round_history_').miner_shares :
                 miners_'[miner_id].unpaid_balance
                     > miners_[miner_id].unpaid_balance
       /\ ( /\ config_.payout_method = "PPS"
            /\ Len(recent_shares_') > Len(recent_shares_) )
          => miners_'[Last(recent_shares_').miner_id].unpaid_balance
                 > miners_[Last(recent_shares_').miner_id].unpaid_balance]_vars

\* The whole part of reward * count / total.  Where total does not divide
\* reward the product is taken first, which the rewards of the runs allow.
ShareOfReward(reward, count, total) ==
    IF reward % total = 0 THEN (reward \div total) * count
    ELSE (reward * count) \div total

PplnsPayoutsSumToDistributable ==
    [][\A block_reward \in BlockRewards :
          ( /\ CalculatePPLNSPayoutsCall(block_reward)
            /\ Len(recent_shares_) > 0 )
          => SumOver(payouts', DOMAIN payouts')
                 = block_reward
                     - CalculateFee(block_reward, config_.pool_fee_percent)]_vars

----------------------------------------------------------------------------
(* Properties of the broadcast and of the end of sessions *)

\* C17: a step in which the chain accepts a block of the pool (the round
\* closes) returns, leaves a new job with clean_jobs set as the current
\* work, and writes the mining.notify of that job to the socket of every
\* connection that is authorized and of no other connection.
BlockAcceptedBroadcastsCleanJob ==
    [][Len(round_history_') > Len(round_history_) =>
          /\ result' # Hung
          /\ stuck' = stuck
          /\ current_work_' # << >>
          /\ current_work_' # current_work_
          /\ current_work_'[1].clean_jobs
          /\ \A c \in DOMAIN connections_ :
                LET sent == SubSeq(outbox'[c], Len(outbox[c]) + 1, Len(outbox'[c]))
                IN  (\E i \in DOMAIN sent : sent[i] = Notify(current_work_'[1]))
                        <=> connections_[c].authorized]_vars

\* C20: once Stop has been called it returns.
StopReturns == (stop_call # "none") ~> (stop_call = "returned")

\* C19: the sweep never closes a session that received data within
\* connection_timeout: whenever the timeout thread removes a connection
\* from the table, the last data the connection received lies more than
\* ConnectionTimeout seconds back.
SweepSparesActiveSessions ==
    [][\A conn_id \in DOMAIN connections_ :
          ( /\ timeout_thread_.pc = "remove"
            /\ timeout_thread_' # timeout_thread_
            /\ conn_id \notin DOMAIN connections_' )
          => now - activity[conn_id].received_at > ConnectionTimeout]_vars

\* C18: while the server runs, a step in which the HandleClient thread of
\* the only connection the server has accepted ends the session and takes
\* the connection out of the table (every worker of the pool was created
\* through it) leaves no worker in the pool's worker table and none in the
\* worker set of a miner.
SessionCloseRemovesItsWorkers ==
    [][\A conn_id \in DOMAIN connections_ :
          ( /\ conn_id \notin DOMAIN connections_'
            /\ pc'[conn_id] = "done"
            /\ next_conn_id_ = 2
            /\ stop_call = "none" )
          => /\ DOMAIN workers_' = {}
             /\ \A miner_id \in DOMAIN miners_' : miners_'[miner_id].workers = {}
             /\ \A miner_id \in DOMAIN miner_workers_' :
                   miner_workers_'[miner_id] = {}]_vars

----------------------------------------------------------------------------
(* Properties of admission *)

\* The connections of the table from an address whose socket is open.
LiveConnectionsFromIP(ip) ==
    Cardinality({c \in DOMAIN connections_ :
                    connections_[c].ip_address = ip /\ connections_[c].open})

\* C21: a round of the accept loop refuses the new connection exactly when
\* admitting it would take the live connections from its address above
\* max_connections_per_ip; otherwise the connection gets its HandleClient
\* thread.
RefusedIffOverLimit ==
    [][next_conn_id_' # next_conn_id_ =>
          LET conn_id == next_conn_id_
              ip == connections_'[conn_id].ip_address
          IN  (pc'[conn_id] # "recv")
                  <=> (LiveConnectionsFromIP(ip) + 1 > MaxConnectionsPerIp)]_vars

----------------------------------------------------------------------------
(* Properties of bans *)

\* C22: a mining.authorize handled while the miner of its username is
\* banned, or while the address of the connection is blocked, binds no
\* worker to the session.
BannedAuthorizeBindsNoWorker ==
    [][\A conn_id \in DOMAIN connections_ :
          ( /\ pc[conn_id] = "auth_mark"
            /\ \/ IsMinerBanned(handling[conn_id].miner_id)
               \/ IsIPBlocked(connections_[conn_id].ip_address) )
          => /\ conn_id \in DOMAIN connections_'
             /\ connections_'[conn_id].worker_id = connections_[conn_id].worker_id]_vars

\* C23: a SubmitShare that takes the rejected shares of a miner above
\* max_invalid_shares returns, and it leaves the miner banned until
\* ban_duration from now, whether or not accepted shares came between the
\* rejected ones.
ExcessRejectedSharesBan ==
    [][\A miner_id \in DOMAIN miners_ :
          ( /\ miners_'[miner_id].total_shares_rejected
                   > miners_[miner_id].total_shares_rejected
            /\ miners_'[miner_id].total_shares_rejected > config_.max_invalid_shares )
          => /\ result' # Hung
             /\ miners_'[miner_id].is_banned
             /\ miners_'[miner_id].ban_expires = now + config_.ban_duration]_vars

----------------------------------------------------------------------------
(* Properties of the registry *)

OwnersWorkerSet(worker_id) ==
    IF build = "pool.cpp"
    THEN IF worker_to_miner_[worker_id] \in DOMAIN miners_
         THEN miners_[worker_to_miner_[worker_id]].workers
         ELSE {}
    ELSE WorkersIn(miner_workers_, workers_[worker_id].miner_id)

\* C25: every worker of the worker table is in the worker set of the miner
\* that owns it, whether AddWorker or the pool's HandleAuthorize created it.
WorkersAreInTheirMinersSet ==
    \A worker_id \in DOMAIN workers_ : worker_id \in OwnersWorkerSet(worker_id)

----------------------------------------------------------------------------
(* Properties of the parameters and of the replies *)

\* C26: a mining.submit on an authorized connection whose nonce and ntime
\* have 8 hex digits and whose extranonce2 has extranonce2_size bytes is
\* not answered with error 20, and one with a nonce, ntime or extranonce2 of
\* another length is answered with error 20 and changes nothing in the pool.
SubmitWidthsAsDeclared ==
    [][\A conn_id \in DOMAIN connections_, env \in Environments :
          ( /\ HandleSubmit(conn_id, env)
            /\ inbox[conn_id][1].nparams >= 5
            /\ connections_[conn_id].worker_id # NoWorker
            /\ inbox[conn_id][1].hex.job_id = 64 )
          => LET hex == inbox[conn_id][1].hex
                 declared == /\ hex.nonce = 8
                             /\ hex.ntime = 8
                             /\ hex.extranonce2 = 2 * Extranonce2Size
             IN  IF declared
                 THEN Last(outbox'[conn_id]) # ErrorReply(20)
                 ELSE /\ Last(outbox'[conn_id]) = ErrorReply(20)
                      /\ UNCHANGED <<miners_, workers_, recent_shares_, current_round_,
                                     next_share_id_>>]_vars

\* C27: every response the server writes, a result or an error, carries the
\* id of a request of the client.
ResponsesCarryRequestId ==
    \A conn_id \in DOMAIN outbox :
        \A i \in 1..Len(outbox[conn_id]) :
            outbox[conn_id][i].type \in {"result", "error"}
                => \E id \in RequestIds : outbox[conn_id][i].id = <<id>>

----------------------------------------------------------------------------
(* Properties of CalculateShareDifficulty *)

\* truncate(pool_diff1_target / (mantissa * 2^shift)) with pool_diff1_target
\* = 0xFFFF * 2^208.
ExactShareDifficulty(mantissa, shift) ==
    IF shift <= 208
    THEN (65535 * Pow2(208 - shift)) \div mantissa
    ELSE 65535 \div (mantissa * Pow2(shift - 208))

\* C28: the value CalculateShareDifficulty returns for a hash is no greater
\* than truncate(pool_diff1_target / hash).
ShareDifficultyRoundsDown ==
    measured # << >>
    => measured[1].difficulty
           <= ExactShareDifficulty(measured[1].mantissa, measured[1].shift)

----------------------------------------------------------------------------
(* Properties of the order of validation *)

\* C29: a SubmitShare for a job id and nonce of a recorded accepted share,
\* with a hash below the difficulty of the worker, is rejected as a
\* duplicate, and the rejection counters of the worker and of its miner go
\* up by one.
DuplicateCheckedBeforeDifficulty ==
    [][\A worker_id \in DOMAIN workers_, job_id \in 1..MaxJobs, nonce \in 1..MaxNonce,
          share_hash \in ShareHashes, env \in Environments :
          ( /\ SubmitShareCall(worker_id, job_id, nonce, share_hash, env)
            /\ \E i \in 1..Len(recent_shares_) :
                  /\ recent_shares_[i].valid
                  /\ recent_shares_[i].job_id = job_id
                  /\ recent_shares_[i].nonce = nonce
            /\ ~ValidateDifficulty(share_hash, workers_[worker_id].current_difficulty) )
          => /\ result' = Err(<<"Share rejected: ", "Duplicate share">>)
             /\ workers_'[worker_id].shares_rejected
                    = workers_[worker_id].shares_rejected + 1
             /\ \A miner_id \in DOMAIN miners_ :
                   miners_'[miner_id].total_shares_rejected
                       = miners_[miner_id].total_shares_rejected
                             + (IF miner_id = workers_[worker_id].miner_id THEN 1 ELSE 0)
          ]_vars

----------------------------------------------------------------------------
(* Properties of the locks around the calls that leave the process *)

\* Thread t stands at a write to a socket, at the fetch of a block template
\* or at the submission of a block.
AtCallOut(t) ==
    \/ at[t].pc \in {"send", "GetBlockTemplate", "AddBlock"}
    \/ /\ at[t].pc = "SendNotify"
       /\ \E c \in DOMAIN connections_ : connections_[c].authorized

\* C30: no thread writes to a socket, fetches a block template from the
\* chain or submits a block while it owns the pool mutex, the work mutex or
\* the mutex of the connection table.
NoCallOutUnderLock ==
    \A t \in LockThreads : AtCallOut(t) => holds[t] = {}

----------------------------------------------------------------------------
(* Properties of the pool mutex inside SubmitShare *)

\* The Share SubmitShare of pool.cpp builds from its arguments.
ShareOfCall(worker_id, job_id, nonce, share_hash) ==
    [ share_id   |-> next_share_id_,
      miner_id   |-> worker_to_miner_[worker_id],
      worker_id  |-> worker_id,
      job_id     |-> job_id,
      nonce      |-> nonce,
      share_hash |-> share_hash,
      difficulty |-> workers_[worker_id].current_difficulty,
      timestamp  |-> now,
      valid      |-> FALSE,
      is_block   |-> FALSE ]

\* The share of a known worker of a known miner that ValidateShare of
\* pool.cpp lets pass.
PassesValidation(worker_id, job_id, nonce, share_hash) ==
    /\ worker_id \in DOMAIN workers_
    /\ worker_to_miner_[worker_id] \in DOMAIN miners_
    /\ ValidateShare(ShareOfCall(worker_id, job_id, nonce, share_hash), Pool) = << >>

\* C31: a call of SubmitShare with a share that passes validation returns:
\* on the path of an accepted share that is no block the calling thread
\* never blocks on the pool mutex it owns.
AcceptedShareReturns ==
    [][\A worker_id \in 1..MaxWorkers, job_id \in 1..MaxJobs, nonce \in 1..MaxNonce,
          share_hash \in ShareHashes, env \in Environments :
          ( /\ build = "pool.cpp"
            /\ PassesValidation(worker_id, job_id, nonce, share_hash)
            /\ ~IsValidBlock(share_hash, ChainDifficulty)
            /\ SubmitShareCall(worker_id, job_id, nonce, share_hash, env) )
          => result' # Hung]_vars

----------------------------------------------------------------------------
(* Properties of mining.authorize for a registered username *)

\* C32: mining.authorize for a username that is already registered goes on
\* to bind a worker to the miner found: GetMinerByUsername returns the
\* miner and the thread of the session does not block on the pool mutex.
AuthorizeOfRegisteredGoesOn ==
    [][\A conn_id \in 1..MaxConns :
          ( /\ AuthorizeLookup(conn_id)
            /\ inbox[conn_id][1].nparams >= 2
            /\ inbox[conn_id][1].user \in DOMAIN username_to_miner_id_ )
          => /\ pc'[conn_id] = "auth_add"
             /\ handling'[conn_id].miner_id
                    = username_to_miner_id_[inbox[conn_id][1].user]]_vars

----------------------------------------------------------------------------
(* Properties of the order of the locks *)

\* The mutex the next statement of thread t locks, "none" when it locks
\* none: SendNotify ends in SendRaw, BroadcastWork and SendRaw lock
\* connections_mutex_, RemoveWorker locks mutex_, ValidateShare and
\* ProcessBlockFound of pool.cpp lock work_mutex_.
Wants(t) ==
    IF at[t].pc \in {"BroadcastWork", "BlockBroadcast"} THEN "connections_mutex_"
    ELSE IF at[t].pc = "SendNotify"
            /\ \E c \in DOMAIN connections_ : connections_[c].authorized
    THEN "connections_mutex_"
    ELSE IF at[t].pc = "RemoveWorker" /\ connections_[at[t].args].worker_id # NoWorker
    THEN "mutex_"
    ELSE IF at[t].pc = "SubmitShare" /\ build = "pool.cpp"
            /\ at[t].args.worker_id \in DOMAIN workers_
    THEN "work_mutex_"
    ELSE "none"

\* C33: no thread locks a mutex it owns, and no two threads wait for a
\* mutex the other owns: a session close and the broadcast after a block
\* cannot block each other for ever.
LocksTakenInOneOrder ==
    /\ \A t \in LockThreads : Wants(t) \notin holds[t]
    /\ \A a, b \in LockThreads :
          a # b => ~(Wants(a) \in holds[b] /\ Wants(b) \in holds[a])

----------------------------------------------------------------------------
(* Properties of two sessions that authorize one username *)

\* C34: a session that found its username unknown and reaches RegisterMiner
\* after another session registered that username still gets its worker
\* bound to the one miner of the username; it is not refused.
LateRegistrationJoinsTheMiner ==
    [][\A conn_id \in 1..MaxSessions :
          ( /\ AuthorizeRegister(conn_id)
            /\ handling[conn_id].msg[1].user \in DOMAIN username_to_miner_id_ )
          => /\ pc'[conn_id] = "auth_add"
             /\ handling'[conn_id].miner_id
                    = username_to_miner_id_[handling[conn_id].msg[1].user]]_vars

----------------------------------------------------------------------------
(* Properties of the record of credited shares *)

\* C35: when a call of SubmitShare that credited its share returns, the
\* share is in recent_shares_, where IsDuplicateShare looks for it.
CreditedShareIsRecorded ==
    [][\A worker_id \in 1..MaxWorkers, job_id \in 1..MaxJobs, nonce \in 1..MaxNonce,
          share_hash \in ShareHashes, env \in Environments :
          ( /\ SubmitShareCall(worker_id, job_id, nonce, share_hash, env)
            /\ worker_id \in DOMAIN workers_
            /\ result' # Hung
            /\ workers_'[worker_id].shares_accepted
                   > workers_[worker_id].shares_accepted )
          => \E i \in DOMAIN recent_shares_' :
                /\ recent_shares_'[i].share_id = next_share_id_
                /\ recent_shares_'[i].job_id = job_id
                /\ recent_shares_'[i].nonce = nonce]_vars

----------------------------------------------------------------------------
(* Properties of the sockets of the connection table *)

\* C36: every entry of the connection table refers to an open socket; a
\* connection refused for the limit of its address leaves no entry, so that
\* no later RemoveConnection closes its descriptor a second time.
TableEntriesAreOpen ==
    \A c \in DOMAIN connections_ : connections_[c].open

----------------------------------------------------------------------------
(* Properties of the framing of lines *)

\* C37: however recv splits the bytes of a client, once all of them are
\* read the lines dispatched are those dispatched when one recv returns
\* them all: the same lines, once each, in the order of the stream.
LinesIndependentOfSplit ==
    (reader.stream # << >> /\ reader.unread = << >>)
    => reader.dispatched = ReadRound(<< >>, << >>, reader.stream).dispatched

----------------------------------------------------------------------------
(* Properties of a submit that returns an error *)

\* What a share that is not accepted must leave alone: the accepted counts
\* of the worker and of its miner, the difficulty and the ring of
\* timestamps of the worker, the tallies of the round and recent_shares_.
AcceptedState(worker_id) ==
    << workers_[worker_id].shares_accepted,
       workers_[worker_id].current_difficulty,
       workers_[worker_id].recent_shares,
       miners_[worker_to_miner_[worker_id]].total_shares_accepted,
       current_round_.shares_submitted,
       current_round_.miner_shares,
       recent_shares_ >>

\* C38: a call of SubmitShare for a worker of a miner that returns an error
\* leaves the accepted state as it was and adds one to the rejected counts
\* of the worker and of the miner and to the invalid-share count of the
\* miner.
ErrorChangesOnlyRejectionState ==
    [][\A worker_id \in 1..MaxWorkers, job_id \in 1..MaxJobs, nonce \in 1..MaxNonce,
          share_hash \in ShareHashes, env \in Environments :
          ( /\ SubmitShareCall(worker_id, job_id, nonce, share_hash, env)
            /\ worker_id \in DOMAIN workers_
            /\ worker_to_miner_[worker_id] \in DOMAIN miners_
            /\ result'.status = "error" )
          => LET m == worker_to_miner_[worker_id]
             IN  /\ AcceptedState(worker_id)' = AcceptedState(worker_id)
                 /\ workers_'[worker_id].shares_rejected
                        = workers_[worker_id].shares_rejected + 1
                 /\ miners_'[m].total_shares_rejected
                        = miners_[m].total_shares_rejected + 1
                 /\ miners_'[m].invalid_share_count
                        = miners_[m].invalid_share_count + 1]_vars

----------------------------------------------------------------------------
(* Properties of the share counters *)

\* Worker::shares_stale: set to 0 when the worker is made and written
\* nowhere else.
SharesStale == 0

\* C39: after any sequence of submits every worker has submitted as many
\* shares as were accepted, rejected or stale, and the round has as many
\* shares as its miners together.
ShareCountersConsistent ==
    /\ \A w \in DOMAIN workers_ :
          workers_[w].shares_submitted
              = workers_[w].shares_accepted + workers_[w].shares_rejected + SharesStale
    /\ current_round_.shares_submitted
           = SumOver(current_round_.miner_shares, DOMAIN current_round_.miner_shares)

----------------------------------------------------------------------------
(* Properties of CalculatePPSPayouts *)

\* C40: CalculatePPSPayouts divides by no zero: whatever the difficulty of
\* the chain, no call ends with the process killed by the fault of a
\* division by zero.
PpsDividesByNoZero == result # Killed

====
